---- MODULE Spec2Model ----
(***************************************************************************)
(* A model of mysql-processor's export/import pipeline:                    *)
(*   - the streaming INSERT-line filter   (src/src/dump.py)                *)
(*   - the large-file splitter            (src/src/dump.py)                *)
(*   - the per-table export worker        (src/src/dump.py)                *)
(*   - export_db / restore_db, their thread pools and the orchestrator     *)
(*     (src/src/dump.py, src/src/restore.py, src/src/main.py)              *)
(* Bytes are the integers 0..255, text is a sequence of code points, and a *)
(* file is a sequence of bytes.                                            *)
(***************************************************************************)
EXTENDS Integers, Sequences, FiniteSets, TLC

VARIABLES
    \* the filter run alone: the file, the size of a read, the read offset,
    \* the carry-over buffer, the lines yielded so far
    f_file, f_chunk, f_pos, f_buffer, f_out, f_pc,
    \* the splitter run alone: temp_file's bytes, max_size, the lines the
    \* generator has still to yield, the loop's locals, the part files
    \* written (part index -> bytes), the value returned
    sp_src, sp_max, sp_lines, sp_st, sp_parts, sp_ret, sp_pc,
    \* commit_frequency of the configuration, as process_single_database gets it
    sp_commit_frequency,
    \* the per-table export worker run alone: split_threshold in bytes, the
    \* files of the table on disk, the runs of the worker so far
    w_threshold, w_fs, w_hist, w_pc,
    \* one database: how it is entered (process_single_database, or export_db
    \* or restore_db called directly), the configuration, the position of the
    \* main thread, what is on disk, what each phase returned
    m_entry, m_do_export, m_delete_after_import, m_threads, m_pc, m_disk,
    m_structure_export, m_tables, m_export_ret, m_structure_import,
    m_restore_ret, m_report, m_result,
    \* the thread pool of the running phase: the phase, the names to submit,
    \* the names submitted (one future each), the state of each future, the
    \* futures that have been started; the done callback of each future
    \* (update_progress): where it is, the total it has computed and not yet
    \* stored, and the aggregate total shared by the callbacks
    p_mode, p_todo, p_names, p_states, p_ran, p_cb, p_local, p_total,
    \* the batch loop of main(): the configured databases and flags, the index
    \* of the next database, the databases handed to process_single_database
    \* so far, the result records appended so far
    b_databases, b_do_export, b_delete_after_import, b_idx, b_attempts,
    b_results, b_pc,
    \* one call of _exe_command: the branch taken (subprocess.run or Popen),
    \* the timeout, what the process does, where the call is, the state of
    \* the process, the time since the call, the time at which
    \* process.wait(timeout) was called, the tuple returned
    x_branch, x_timeout, x_proc, x_pc, x_alive, x_clock, x_wait_start, x_ret,
    \* two workers of one export pool, each on its own table: the two table
    \* names, where each worker is, the paths that exist in the database folder,
    \* the paths each worker has created, renamed, overwritten or deleted, the
    \* part each splitting worker writes next and the parts it has to write
    n_tables, n_pc, n_fs, n_touched, n_next_part, n_parts,
    \* one call of _collect_data_files: the files of the data folder with their
    \* sizes, the list returned
    d_listing, d_data_files, d_pc,
    \* one call of _execute_import: the file, the database, what the lookup of
    \* the tool and the two commands give, the commands handed to _exe_command
    \* so far, the errors logged, where the call is, the value returned
    i_sql_file, i_database, i_env, i_calls, i_log, i_pc, i_ret,
    \* export_db followed by restore_db on the same dump folder, for a database
    \* with one table: split_threshold, what the worker meets, the files of the
    \* table in the data folder, the record of the worker, what export_db
    \* returned, the data files handed to the import pool
    r_threshold, r_env, r_fs, r_result, r_export_ret, r_data_files, r_pc,
    \* main() and the dump folder: the configuration, whether the folder exists,
    \* its entries now and at the start, the loop index, one record per call of
    \* process_single_database, the position
    c_databases, c_do_export, c_delete_after_import, c_exists, c_folder, c_folder0, c_idx, c_log, c_pc,
    \* FileMonitor: the holder of _global_monitor_lock, self._thread, the threads
    \* alive, those past the test of their loop, self._stop_event, the position of
    \* each caller and what its is_running() saw, the calls that returned, the
    \* number of threads created
    k_lock, k_thread, k_alive, k_body, k_stop_event, k_pc, k_seen, k_hist, k_made

filterVars == <<f_file, f_chunk, f_pos, f_buffer, f_out, f_pc>>
splitVars == <<sp_src, sp_max, sp_lines, sp_st, sp_parts, sp_ret, sp_pc,
               sp_commit_frequency>>
workerVars == <<w_threshold, w_fs, w_hist, w_pc>>
mainVars == <<m_entry, m_do_export, m_delete_after_import, m_threads, m_pc, m_disk,
              m_structure_export, m_tables, m_export_ret, m_structure_import,
              m_restore_ret, m_report, m_result>>
poolVars == <<p_mode, p_todo, p_names, p_states, p_ran, p_cb, p_local, p_total>>
batchVars == <<b_databases, b_do_export, b_delete_after_import, b_idx,
               b_attempts, b_results, b_pc>>
shellVars == <<x_branch, x_timeout, x_proc, x_pc, x_alive, x_clock,
               x_wait_start, x_ret>>
namesVars == <<n_tables, n_pc, n_fs, n_touched, n_next_part, n_parts>>
discoverVars == <<d_listing, d_data_files, d_pc>>
importVars == <<i_sql_file, i_database, i_env, i_calls, i_log, i_pc, i_ret>>
runVars == <<r_threshold, r_env, r_fs, r_result, r_export_ret, r_data_files, r_pc>>
startVars == <<c_databases, c_do_export, c_delete_after_import, c_exists, c_folder, c_folder0, c_idx, c_log, c_pc>>
monitorVars == <<k_lock, k_thread, k_alive, k_body, k_stop_event, k_pc, k_seen, k_hist, k_made>>
vars == <<filterVars, splitVars, workerVars, mainVars, poolVars, batchVars,
          shellVars,
          namesVars,
          discoverVars,
          importVars,
          runVars,
          startVars,
          monitorVars>>
exceptFilter == <<splitVars, workerVars, mainVars, poolVars, batchVars, shellVars,
    namesVars,
    discoverVars,
    importVars,
    runVars,
    startVars,
    monitorVars>>
exceptSplit == <<filterVars, workerVars, mainVars, poolVars, batchVars, shellVars,
    namesVars,
    discoverVars,
    importVars,
    runVars,
    startVars,
    monitorVars>>
exceptWorker == <<filterVars, splitVars, mainVars, poolVars, batchVars, shellVars,
    namesVars,
    discoverVars,
    importVars,
    runVars,
    startVars,
    monitorVars>>
exceptMigrate == <<filterVars, splitVars, workerVars, batchVars, shellVars,
    namesVars,
    discoverVars,
    importVars,
    runVars,
    startVars,
    monitorVars>>
exceptBatch == <<filterVars, splitVars, workerVars, mainVars, poolVars, shellVars,
    namesVars,
    discoverVars,
    importVars,
    runVars,
    startVars,
    monitorVars>>
exceptShell == <<filterVars, splitVars, workerVars, mainVars, poolVars, batchVars,
    namesVars,
    discoverVars,
    importVars,
    runVars,
    startVars,
    monitorVars>>
exceptNames == <<filterVars, splitVars, workerVars, mainVars,
    poolVars, batchVars, shellVars,
    discoverVars,
    importVars,
    runVars,
    startVars,
    monitorVars>>
exceptDiscover == <<filterVars, splitVars, workerVars, mainVars,
    poolVars, batchVars, shellVars, namesVars,
    importVars,
    runVars,
    startVars,
    monitorVars>>
exceptImport == <<filterVars, splitVars, workerVars, mainVars,
    poolVars, batchVars, shellVars, namesVars, discoverVars,
    runVars,
    startVars,
    monitorVars>>
exceptRun == <<filterVars, splitVars, workerVars, mainVars,
    poolVars, batchVars, shellVars, namesVars, discoverVars, importVars,
    startVars,
    monitorVars>>
exceptStart == <<filterVars, splitVars, workerVars, mainVars,
    poolVars, batchVars, shellVars, namesVars, discoverVars, importVars, runVars,
    monitorVars>>
exceptMonitor == <<filterVars, splitVars, workerVars, mainVars,
    poolVars, batchVars, shellVars, namesVars, discoverVars, importVars, runVars, startVars>>

----------------------------------------------------------------------------
(* Small helpers *)

Min(S) == CHOOSE x \in S : \A y \in S : x <= y
Max(S) == CHOOSE x \in S : \A y \in S : x >= y

\* The concatenation of the sequences ss[lo], ..., ss[hi].
RECURSIVE FlattenRange(_, _, _)
FlattenRange(ss, lo, hi) ==
    IF lo > hi THEN <<>>
    ELSE IF lo = hi THEN ss[lo]
    ELSE LET mid == (lo + hi) \div 2
         IN  FlattenRange(ss, lo, mid) \o FlattenRange(ss, mid + 1, hi)

Flatten(ss) == FlattenRange(ss, 1, Len(ss))

\* The indices 1..n at which Test holds, in increasing order.
IndicesWhere(n, Test(_)) == SelectSeq([i \in 1..n |-> i], Test)

----------------------------------------------------------------------------
(* Python's bytes and str primitives used by the filter *)

\* bytes.strip() removes the ASCII whitespace bytes b' \t\n\r\x0b\x0c'.
BytesSpace == {9, 10, 11, 12, 13, 32}

\* str.strip() removes every code point for which str.isspace() holds.
StrSpace == {9, 10, 11, 12, 13, 28, 29, 30, 31, 32, 133, 160, 5760}
            \cup (8192..8202) \cup {8232, 8233, 8239, 8287, 12288}

\* s.strip(): s without its leading and trailing members of ws.
StripBy(s, ws) ==
    LET keep == IndicesWhere(Len(s), LAMBDA i : s[i] \notin ws)
    IN  IF keep = <<>> THEN <<>> ELSE SubSeq(s, keep[1], keep[Len(keep)])

\* b.split(b'\n'): k newlines give k+1 pieces, empty ones included.
SplitNL(b) ==
    LET nls == IndicesWhere(Len(b), LAMBDA i : b[i] = 10)
        n == Len(nls)
    IN  [k \in 1..(n + 1) |->
            SubSeq(b, IF k = 1 THEN 1 ELSE nls[k - 1] + 1,
                      IF k = n + 1 THEN Len(b) ELSE nls[k] - 1)]

\* The number of continuation bytes a UTF-8 lead byte announces (-1: no lead byte).
Utf8Follow(b1) ==
    IF b1 < 128 THEN 0
    ELSE IF b1 \in 194..223 THEN 1
    ELSE IF b1 \in 224..239 THEN 2
    ELSE IF b1 \in 240..244 THEN 3
    ELSE -1

\* The second byte's range, which rules out overlong forms, surrogates and
\* code points above U+10FFFF.
Utf8SecondOk(b1, b2) ==
    /\ b2 \in 128..191
    /\ (b1 = 224 => b2 >= 160)
    /\ (b1 = 237 => b2 <= 159)
    /\ (b1 = 240 => b2 >= 144)
    /\ (b1 = 244 => b2 <= 143)

Utf8Lead(b1, n) ==
    IF n = 0 THEN b1 ELSE IF n = 1 THEN b1 - 192 ELSE IF n = 2 THEN b1 - 224 ELSE b1 - 240

RECURSIVE Utf8Value(_, _, _, _)
Utf8Value(b, i, n, acc) ==
    IF n = 0 THEN acc ELSE Utf8Value(b, i + 1, n - 1, acc * 64 + (b[i] - 128))

\* bytes.decode('utf-8'): the code points, or ok = FALSE for UnicodeDecodeError.
RECURSIVE Utf8DecodeFrom(_, _, _)
Utf8DecodeFrom(b, i, acc) ==
    IF i > Len(b) THEN [ok |-> TRUE, chars |-> acc]
    ELSE LET n == Utf8Follow(b[i])
         IN  IF \/ n = -1
                \/ i + n > Len(b)
                \/ (n >= 1 /\ ~Utf8SecondOk(b[i], b[i + 1]))
                \/ \E k \in 2..n : b[i + k] \notin 128..191
             THEN [ok |-> FALSE, chars |-> <<>>]
             ELSE Utf8DecodeFrom(b, i + n + 1,
                      Append(acc, Utf8Value(b, i + 1, n, Utf8Lead(b[i], n))))

Utf8Decode(b) == Utf8DecodeFrom(b, 1, <<>>)

\* bytes.decode('latin-1'): byte n is code point n; it never fails.
Latin1Decode(b) == b

\* No second decoding: the UnicodeDecodeError leaves the generator.
DecodeNoFallback(b) == [ok |-> FALSE, chars |-> <<>>]

\* `except UnicodeDecodeError: line = line_bytes.decode('latin-1')`
DecodeFallback(b) == [ok |-> TRUE, chars |-> Latin1Decode(b)]

\* try: decode('utf-8')  except UnicodeDecodeError: decode('latin-1'); ok is
\* FALSE when an exception is left to the caller.
DecodeLineResult(b) ==
    LET u == Utf8Decode(b) IN IF u.ok THEN u ELSE DecodeFallback(b)

DecodeLine(b) == DecodeLineResult(b).chars

\* str.upper() as far as a prefix test against ASCII letters can see it:
\* a..z, and the two non-ASCII letters whose upper case is ASCII
\* (dotless i U+0131 -> I, long s U+017F -> S).
Upper(c) ==
    IF c \in 97..122 THEN c - 32
    ELSE IF c = 305 THEN 73
    ELSE IF c = 383 THEN 83
    ELSE c

\* 'INSERT INTO'
INSERT_INTO == <<73, 78, 83, 69, 82, 84, 32, 73, 78, 84, 79>>

\* line.upper().startswith('INSERT INTO')
StartsWithInsert(line) ==
    /\ Len(line) >= Len(INSERT_INTO)
    /\ \A i \in 1..Len(INSERT_INTO) : Upper(line[i]) = INSERT_INTO[i]

----------------------------------------------------------------------------
(* MyDump._iter_insert_lines *)

\* f.read(65536)
READ_SIZE == 65536

\* The body of `for line_bytes in lines[:-1]`: what one complete line yields.
YieldLine(line_bytes) ==
    LET stripped == StripBy(line_bytes, BytesSpace)
        line == StripBy(DecodeLine(stripped), StrSpace)
    IN  IF stripped /= <<>> /\ StartsWithInsert(line) THEN <<line>> ELSE <<>>

\* The body of the loop over the rest of the buffer at end of file.
YieldLast(line_bytes) ==
    LET line == StripBy(DecodeLine(line_bytes), StrSpace)
    IN  IF StripBy(line_bytes, BytesSpace) /= <<>> /\ StartsWithInsert(line)
        THEN <<line>> ELSE <<>>

YieldLines(lines) == Flatten([k \in 1..Len(lines) |-> YieldLine(lines[k])])

YieldLasts(lines) == Flatten([k \in 1..Len(lines) |-> YieldLast(lines[k])])

\* The carry-over with the bytes read before this chunk forgotten.
CarryOverChunkOnly(buffer, chunk) ==
    LET lines == SplitNL(chunk) IN lines[Len(lines)]

\* buffer += chunk; lines = buffer.split(b'\n'); buffer = lines[-1]
CarryOver(buffer, chunk) ==
    LET lines == SplitNL(buffer \o chunk) IN lines[Len(lines)]

\* One turn of the loop with a non-empty chunk: the new buffer and the lines yielded.
ProcessChunk(buffer, chunk) ==
    LET lines == SplitNL(buffer \o chunk)
    IN  [buffer |-> CarryOver(buffer, chunk),
         out    |-> YieldLines(SubSeq(lines, 1, Len(lines) - 1))]

\* The turn that reads the empty chunk: the rest of the buffer is the last line.
ProcessEOF(buffer) ==
    IF buffer /= <<>> THEN YieldLasts(SplitNL(buffer)) ELSE <<>>

\* A decoding of the turn leaves its exception to the caller (`raise` in the
\* handler of the generator): in a turn with a chunk the complete lines are
\* decoded after bytes.strip(), at the end of the file the lines of the
\* buffer are decoded as they are.
ChunkRaises(buffer, chunk) ==
    LET lines == SplitNL(buffer \o chunk)
    IN  \E k \in 1..(Len(lines) - 1) :
            /\ StripBy(lines[k], BytesSpace) /= <<>>
            /\ ~DecodeLineResult(StripBy(lines[k], BytesSpace)).ok

EOFRaises(buffer) ==
    LET lines == SplitNL(buffer)
    IN  /\ buffer /= <<>>
        /\ \E k \in 1..Len(lines) :
              /\ StripBy(lines[k], BytesSpace) /= <<>>
              /\ ~DecodeLineResult(lines[k]).ok

ReadAt(file, pos, size) ==
    SubSeq(file, pos + 1, IF pos + size > Len(file) THEN Len(file) ELSE pos + size)

\* The whole generator, run to exhaustion with reads of `size` bytes.
RECURSIVE IterFrom(_, _, _, _)
IterFrom(file, pos, buffer, size) ==
    LET chunk == ReadAt(file, pos, size)
    IN  IF chunk = <<>> THEN ProcessEOF(buffer)
        ELSE LET r == ProcessChunk(buffer, chunk)
             IN  r.out \o IterFrom(file, pos + Len(chunk), r.buffer, size)

IterInsertLines(file) == IterFrom(file, 0, <<>>, READ_SIZE)

----------------------------------------------------------------------------
(* The envelope statements and MyDump._split_large_file *)

header_lines ==
    << \* set foreign_key_checks = 0;
       <<115, 101, 116, 32, 102, 111, 114, 101, 105, 103, 110, 95, 107, 101, 121, 95, 99, 104, 101, 99, 107, 115, 32, 61, 32, 48, 59>>,
       \* set unique_checks = 0;
       <<115, 101, 116, 32, 117, 110, 105, 113, 117, 101, 95, 99, 104, 101, 99, 107, 115, 32, 61, 32, 48, 59>>,
       \* set autocommit=0;
       <<115, 101, 116, 32, 97, 117, 116, 111, 99, 111, 109, 109, 105, 116, 61, 48, 59>>,
       \* SET SESSION sort_buffer_size = 32*1024*1024;
       <<83, 69, 84, 32, 83, 69, 83, 83, 73, 79, 78, 32, 115, 111, 114, 116, 95, 98, 117, 102, 102, 101, 114, 95, 115, 105, 122, 101, 32, 61, 32, 51, 50, 42, 49, 48, 50, 52, 42, 49, 48, 50, 52, 59>>,
       \* START TRANSACTION;
       <<83, 84, 65, 82, 84, 32, 84, 82, 65, 78, 83, 65, 67, 84, 73, 79, 78, 59>> >>

commit_lines ==
    << \* commit;
       <<99, 111, 109, 109, 105, 116, 59>>,
       \* START TRANSACTION;
       <<83, 84, 65, 82, 84, 32, 84, 82, 65, 78, 83, 65, 67, 84, 73, 79, 78, 59>> >>

footer_lines ==
    << \* commit;
       <<99, 111, 109, 109, 105, 116, 59>>,
       \* set foreign_key_checks = 1;
       <<115, 101, 116, 32, 102, 111, 114, 101, 105, 103, 110, 95, 107, 101, 121, 95, 99, 104, 101, 99, 107, 115, 32, 61, 32, 49, 59>>,
       \* set unique_checks = 1;
       <<115, 101, 116, 32, 117, 110, 105, 113, 117, 101, 95, 99, 104, 101, 99, 107, 115, 32, 61, 32, 49, 59>> >>

\* ('\n'.join(lines) + '\n').encode('utf-8') of ASCII lines
JoinLines(lines) == Flatten([k \in 1..Len(lines) |-> Append(lines[k], 10)])

header_bytes == JoinLines(header_lines)
footer_bytes == JoinLines(footer_lines)
commit_bytes == JoinLines(commit_lines)

header_size == Len(header_bytes)
footer_size == Len(footer_bytes)
commit_size == Len(commit_bytes)

\* The budget with nothing reserved for the envelope.
EffectiveMaxUnreserved(max_bytes) == max_bytes

\* effective_max_bytes = max_bytes - header_size - footer_size - commit_size
EffectiveMax(max_bytes) == max_bytes - header_size - footer_size - commit_size

\* One code point in UTF-8.
Utf8EncodeChar(c) ==
    IF c < 128 THEN <<c>>
    ELSE IF c < 2048 THEN <<192 + (c \div 64), 128 + (c % 64)>>
    ELSE IF c < 65536
         THEN <<224 + (c \div 4096), 128 + ((c \div 64) % 64), 128 + (c % 64)>>
    ELSE <<240 + (c \div 262144), 128 + ((c \div 4096) % 64),
           128 + ((c \div 64) % 64), 128 + (c % 64)>>

Utf8Encode(s) == Flatten([k \in 1..Len(s) |-> Utf8EncodeChar(s[k])])

\* if not line.endswith('\n'): line += '\n'
\* try: line.encode('utf-8')  except UnicodeEncodeError: line.encode('latin-1')
\* (only a surrogate makes the UTF-8 encoder fail, and no decoder yields one)
EncodeLine(line) ==
    LET l == IF line /= <<>> /\ line[Len(line)] = 10 THEN line ELSE Append(line, 10)
    IN  IF \E i \in 1..Len(l) : l[i] \in 55296..57343 THEN l ELSE Utf8Encode(l)

\* `insert_count % 50 == 0`
COMMIT_EVERY == 50

\* A part written without its header.
PartContentNoHeader(current_lines) == Flatten(current_lines) \o footer_bytes

\* A part written without its footer.
PartContentNoFooter(current_lines) == header_bytes \o Flatten(current_lines)

\* header_bytes, the buffered lines, footer_bytes: what one part file holds.
PartContent(current_lines) == header_bytes \o Flatten(current_lines) \o footer_bytes

\* The locals of the loop before the first line.
SplitStart ==
    [file_counter |-> 1, current_lines |-> <<>>, current_size |-> 0, insert_count |-> 0]

\* `if current_size + line_size > effective_max_bytes and current_lines`
MustFlush(st, line_size, max_bytes) ==
    /\ st.current_size + line_size > EffectiveMax(max_bytes)
    /\ st.current_lines /= <<>>

\* One turn of `for line in insert_lines`: the locals afterwards, and the part
\* file written in this turn (index and bytes), if any.
SplitStep(st, line, max_bytes) ==
    LET byte_line == EncodeLine(line)
        line_size == Len(byte_line)
        flush == MustFlush(st, line_size, max_bytes)
        s1 == IF flush
              THEN [file_counter |-> st.file_counter + 1, current_lines |-> <<>>,
                    current_size |-> 0, insert_count |-> 0]
              ELSE st
        s2 == [s1 EXCEPT !.current_lines = Append(@, byte_line),
                         !.current_size = @ + line_size,
                         !.insert_count = @ + 1]
        s3 == IF s2.insert_count % COMMIT_EVERY = 0 /\ s2.current_lines /= <<>>
              THEN [s2 EXCEPT !.current_lines = Append(@, commit_bytes),
                              !.current_size = @ + commit_size]
              ELSE s2
    IN  [st |-> s3,
         written |-> IF flush
                     THEN <<[index |-> st.file_counter,
                             bytes |-> PartContent(st.current_lines)]>>
                     ELSE <<>>]

\* The end of the loop with the last buffer dropped instead of written.
SplitFinishNoFlush(st) ==
    [st |-> st, written |-> <<>>, ret |-> st.file_counter - 1]

\* A last part written whether or not lines are buffered.
SplitFinishAlwaysWrite(st) ==
    [st |-> [st EXCEPT !.file_counter = @ + 1],
     written |-> <<[index |-> st.file_counter,
                    bytes |-> PartContent(st.current_lines)]>>,
     ret |-> st.file_counter]

\* After the loop: `if current_lines:` write the last part; return file_counter - 1.
SplitFinish(st) ==
    IF st.current_lines /= <<>>
    THEN [st |-> [st EXCEPT !.file_counter = @ + 1],
          written |-> <<[index |-> st.file_counter,
                         bytes |-> PartContent(st.current_lines)]>>,
          ret |-> st.file_counter]
    ELSE [st |-> st, written |-> <<>>, ret |-> st.file_counter - 1]

\* open(part, 'wb') and the writes: the part file exists with these bytes.
WriteParts(parts, written) ==
    IF written = <<>> THEN parts
    ELSE [i \in DOMAIN parts \cup {written[1].index} |->
             IF i = written[1].index THEN written[1].bytes ELSE parts[i]]

----------------------------------------------------------------------------
(* The files of one table on disk: a function from the paths that exist to
   their bytes.  os.path.exists, os.remove, os.rename and open(.., 'w') *)

\* No file at all.
NoFiles == [q \in {} |-> <<>>]

Exists(fs, path) == path \in DOMAIN fs

Remove(fs, path) == [q \in DOMAIN fs \ {path} |-> fs[q]]

WriteFile(fs, path, bytes) ==
    [q \in DOMAIN fs \cup {path} |-> IF q = path THEN bytes ELSE fs[q]]

Rename(fs, from, to) == WriteFile(Remove(fs, from), to, fs[from])

\* The output file of the table, and `f"{table_file}.tmp"`.
table_file == "t.sql"
temp_file == "t.sql.tmp"

\* `f"{n:03d}"`: at least three digits.
Pad3(n) ==
    IF n < 10 THEN "00" \o ToString(n)
    ELSE IF n < 100 THEN "0" \o ToString(n) ELSE ToString(n)

\* Parts numbered from 0.
PartNameFromZero(file_counter) == "t.part" \o Pad3(file_counter - 1) \o ".sql"

\* `f"{base_name_without_ext}.part{file_counter:03d}{ext}"`
PartName(file_counter) == "t.part" \o Pad3(file_counter) \o ".sql"

\* _split_large_file from the first line on: the part files it writes, in the
\* order it writes them.
RECURSIVE SplitWrites(_, _, _, _)
SplitWrites(lines, i, st, max_bytes) ==
    IF i > Len(lines) THEN SplitFinish(st).written
    ELSE LET r == SplitStep(st, lines[i], max_bytes)
         IN  r.written \o SplitWrites(lines, i + 1, r.st, max_bytes)

SplitLargeFile(source, max_size) ==
    SplitWrites(IterInsertLines(source), 1, SplitStart, max_size)

\* `return file_counter - 1` of the same call.
RECURSIVE SplitReturn(_, _, _, _)
SplitReturn(lines, i, st, max_bytes) ==
    IF i > Len(lines) THEN SplitFinish(st).ret
    ELSE SplitReturn(lines, i + 1, SplitStep(st, lines[i], max_bytes).st, max_bytes)

SplitLargeFileReturn(source, max_size) ==
    SplitReturn(IterInsertLines(source), 1, SplitStart, max_size)

\* The part files on disk after the first n of these writes.
RECURSIVE WritePartFiles(_, _, _)
WritePartFiles(fs, writes, n) ==
    IF n = 0 THEN fs
    ELSE WriteFile(WritePartFiles(fs, writes, n - 1),
                   PartName(writes[n].index), writes[n].bytes)

\* A check that takes any file with bytes in it for a file with data.
CheckHasInsertSqlNonEmpty(file) == file /= <<>>

\* _check_has_insert_sql: the filter yields at least one line.
CheckHasInsertSql(file) == IterInsertLines(file) /= <<>>

\* The text _add_header_footer_to_file writes: the header, each line after a
\* newline, the checkpoint after every 50th line that is not the last, the footer.
AddHeaderFooterContent(insert_lines) ==
    LET total_lines == Len(insert_lines)
        piece(i) ==
            <<10>> \o Utf8Encode(insert_lines[i]) \o
            (IF i % COMMIT_EVERY = 0 /\ i < total_lines
             THEN <<10>> \o commit_bytes ELSE <<>>)
    IN  header_bytes \o Flatten([i \in 1..total_lines |-> piece(i)])
            \o <<10>> \o footer_bytes

\* The file left as the dump tool wrote it.
AddHeaderFooterToFileUntouched(fs, fault) == fs

\* The steps of _add_header_footer_to_file that raise OSError: a write into the
\* temp file after the header, or os.replace once the temp file is complete.
AddFaults == {"add_write", "add_replace"}

\* A handler that leaves the temp file where it is.
AddHeaderFooterHandlerKeepsTemp(fs) == fs

\* The except branch of _add_header_footer_to_file: the temp file is removed
\* if it exists.
AddHeaderFooterHandler(fs) ==
    IF Exists(fs, temp_file) THEN Remove(fs, temp_file) ELSE fs

\* _add_header_footer_to_file: the file rewritten through file_path + '.tmp' and
\* os.replace; when a step raises, the temp file is removed and the file stays.
AddHeaderFooterToFile(fs, fault) ==
    LET done == AddHeaderFooterContent(IterInsertLines(fs[table_file]))
    IN  IF fault = "add_write"
        THEN AddHeaderFooterHandler(WriteFile(fs, temp_file, header_bytes))
        ELSE IF fault = "add_replace"
        THEN AddHeaderFooterHandler(WriteFile(fs, temp_file, done))
        ELSE Rename(WriteFile(fs, temp_file, done), temp_file, table_file)

\* What _add_header_footer_to_file returns: True after os.replace, False from
\* the except branch.
AddHeaderFooterReturn(fault) == IF fault \in AddFaults THEN "false" ELSE "true"

\* str(e) of the exceptions the worker catches, as the pieces of the message.
\* RuntimeError(f"...exit code: {exit_code}"): a fixed phrase and the exit code.
ExitCodeError(exit_code) == <<"table data export failed, exit code: ", ToString(exit_code)>>
AttributeErrorText == <<"'MyDump' object has no attribute 'get_mysqldump_exe'">>
OSErrorText == <<"[Errno 28] No space left on device">>

\* No split was done, or it did not return.
NoSplit == [ret |-> -1, names |-> <<>>]

\* `except Exception as e`: table_file removed when it exists, the failure record.
ExportFailed(fs, error) ==
    [fs |-> IF Exists(fs, table_file) THEN Remove(fs, table_file) ELSE fs,
     result |-> [success |-> FALSE, error |-> error, original_size_mb |-> 0]]

\* `if file_size > self.split_threshold:` rename, split, remove the temp file.
\* fault names the step that raises, if any (part_k: opening the k-th part).
\* split holds what the splitter returned and the names of the files it
\* opened; the worker drops the value returned.
ExportSplit(fs, file_size, split_threshold, fault) ==
    LET fs2 == Rename(fs, table_file, temp_file)
        writes == SplitLargeFile(fs2[temp_file], split_threshold)
        failing == IF fault = "part_1" THEN 1 ELSE IF fault = "part_2" THEN 2 ELSE 0
    IN  IF failing >= 1 /\ failing <= Len(writes)
        THEN ExportFailed(WritePartFiles(fs2, writes, failing - 1), OSErrorText)
        ELSE LET fs3 == WritePartFiles(fs2, writes, Len(writes))
             IN  IF fault = "remove_tmp" THEN ExportFailed(fs3, OSErrorText)
                 ELSE [fs |-> Remove(fs3, temp_file),
                       result |-> [success |-> TRUE, size_mb |-> file_size,
                                   original_size_mb |-> file_size],
                       split |-> [ret |-> SplitLargeFileReturn(fs2[temp_file],
                                                               split_threshold),
                                  names |-> [k \in DOMAIN writes |->
                                                PartName(writes[k].index)]]]

\* _exe_command of `cmd > table_file`: the shell creates table_file and the tool
\* writes into it; success is exit code 0; the output is the captured lines.
ExeCommand(fs, tool) ==
    [fs |-> IF tool.created THEN WriteFile(fs, table_file, tool.stdout) ELSE fs,
     success |-> tool.exit_code = 0,
     exit_code |-> tool.exit_code,
     output |-> tool.stderr]

\* _export_table_data: the files and the result record afterwards.  size_mb
\* and original_size_mb are kept in bytes (the code divides by 1024 * 1024).
ExportTableData(fs, split_threshold, env) ==
    IF env.lookup = "raise" THEN ExportFailed(fs, AttributeErrorText)
    ELSE
    LET run == ExeCommand(fs, env.tool)
        fs1 == run.fs
    IN  IF ~run.success THEN ExportFailed(fs1, ExitCodeError(run.exit_code))
        ELSE IF ~Exists(fs1, table_file)
        THEN [fs |-> fs1, result |-> [success |-> TRUE, size_mb |-> 0]]
        ELSE
        LET file_size == Len(fs1[table_file])
        IN  IF ~CheckHasInsertSql(fs1[table_file])
            THEN [fs |-> Remove(fs1, table_file),
                  result |-> [success |-> TRUE, size_mb |-> 0, original_size_mb |-> 0]]
            ELSE IF file_size > split_threshold
            THEN ExportSplit(fs1, file_size, split_threshold, env.fault)
            ELSE [fs |-> AddHeaderFooterToFile(fs1, env.fault),
                  wrap |-> AddHeaderFooterReturn(env.fault),
                  result |-> [success |-> TRUE, size_mb |-> file_size,
                              original_size_mb |-> file_size]]

----------------------------------------------------------------------------
(* One database through export_db, restore_db and process_single_database.
   A table is named by its rank in alphabetical order, a data file by its
   rank in the sorted directory listing. *)

\* Bounds: the tables of the source database, the data files in the dump
\* folder, the width of a pool.
MaxTables == 3
MaxFiles == 3
MaxThreads == 2

\* `def __init__(self, mysql, split_threshold_mb=500, threads=8)`: the arguments
\* MyDump takes after self, and the arguments process_single_database passes.
MyDumpInitParams == 3
MyDumpArgsOfMain == 4

\* sorted(..): the names in increasing order.
RECURSIVE Sorted(_)
Sorted(S) == IF S = {} THEN <<>> ELSE <<Min(S)>> \o Sorted(S \ {Min(S)})

\* _get_all_tables: the sorted names of the tables, [] when the query fails.
TableLists == { Sorted(S) : S \in SUBSET (1..MaxTables) }

\* _collect_data_files: the non-empty .sql files of the folder, sorted.
FileLists == { Sorted(S) : S \in SUBSET (1..MaxFiles) }

\* _export_structure: the lookup of the tool raises, or the tool runs and
\* exits with 0 or not; True only in the last case.  The shell creates
\* dump_file whenever the tool is run.
StructureOutcomes == {"ok", "tool_failed", "lookup_raised"}
ExportStructureOk(outcome) == outcome = "ok"

\* _execute_import: the lookup, the load, then COMMIT after a load that
\* succeeded and ROLLBACK after one that failed; True when load and COMMIT
\* both succeeded.
ImportEnvs ==
    { [lookup |-> "raise", load |-> FALSE, commit |-> FALSE] }
    \cup { [lookup |-> "ok", load |-> l, commit |-> c] : l, c \in BOOLEAN }

ExecuteImport(env) ==
    IF env.lookup = "raise" THEN FALSE
    ELSE IF env.load THEN env.commit ELSE FALSE

\* What a task of the pool ends with: the export worker returns a record with
\* success true or false, or raises (its handler's os.remove can raise); the
\* import worker returns a record with the value of _execute_import.
ExportTaskOutcomes == {"ok", "fail", "raise"}
ImportSingleTable(env) == IF ExecuteImport(env) THEN "ok" ELSE "fail"

\* The size of the k-th data file, as os.path.getsize gives it.
FileSize(k) == k

\* `imported_total_size += result['size_mb']`, the value computed.
AddSize(total, size_mb) == total + size_mb

RECURSIVE SumSizes(_)
SumSizes(S) ==
    IF S = {} THEN 0
    ELSE LET k == CHOOSE x \in S : TRUE IN FileSize(k) + SumSizes(S \ {k})

\* _get_exported_files_size: the sizes of the files in the data folder, those
\* of the tables exported so far.
ExportedFilesSize(states) ==
    SumSizes({ i \in DOMAIN states : states[i] = "ok" })

\* `for future, name in zip(futures, names)`: the success count and the
\* failure list, a result of success=false or an exception being a failure.
RECURSIVE CollectFrom(_, _, _, _)
CollectFrom(names, states, i, acc) ==
    IF i > Len(names) THEN acc
    ELSE CollectFrom(names, states, i + 1,
            IF states[i] = "ok"
            THEN [acc EXCEPT !.success_count = @ + 1]
            ELSE [acc EXCEPT !.failed = Append(@, names[i])])

\* The loop left at the first failure.
CollectResultsStopAtFailure(names, states) ==
    LET bad == { i \in DOMAIN states : states[i] /= "ok" }
        last == IF bad = {} THEN Len(names) ELSE Min(bad)
    IN  CollectFrom(SubSeq(names, 1, last), SubSeq(states, 1, last), 1,
                    [success_count |-> 0, failed |-> <<>>])

CollectResults(names, states) ==
    CollectFrom(names, states, 1, [success_count |-> 0, failed |-> <<>>])

\* An export_db that wants one table exported at least.
ExportDbResultPositive(success_count) == success_count > 0

\* `return success_count >= 0` of export_db.
ExportDbResult(success_count) == success_count >= 0

\* A restore_db that is content with any count.
RestoreDbResultAny(success_count, data_files) == success_count >= 0

\* `success_count == len(data_files)` of restore_db.
RestoreDbResult(success_count, data_files) == success_count = Len(data_files)

\* An export_db that goes on to the tables whatever the structure export returned.
AfterExportStructureAlways(success) == "discover"

\* `if not self._export_structure(..): return False`: where export_db goes on.
AfterExportStructure(success) == IF success THEN "discover" ELSE "export_returned"

\* A restore_db that goes on to the data files whatever the structure import
\* returned.
AfterImportStructureAlways(exists, success) == "collect"

\* `if not os.path.exists(structure_file): return False` and
\* `if not self._import_structure(..): return False`: where restore_db goes on.
AfterImportStructure(exists, success) ==
    IF exists /\ success THEN "collect" ELSE "restore_returned"

\* Nothing of the database on disk.
NoDisk == [structure_file |-> FALSE, data_folder |-> FALSE, data_files |-> <<>>]

\* `if result['status'] == 'success' and delete_after_import:` the structure
\* file is unlinked and the data folder removed with all its files.
Cleanup(disk, status, delete_after_import) ==
    IF status = "success" /\ delete_after_import THEN NoDisk ELSE disk

\* What can go wrong in the cleanup: sql_file.unlink() raises, or
\* shutil.rmtree(db_folder) raises after some of the files were removed.
CleanupFaults == {"none", "unlink", "rmtree"}

\* The data files left by an rmtree that raised: it stops at the first error,
\* the files removed before are gone and the folder itself stays.
RmtreeLeftovers(data_files) ==
    { SubSeq(data_files, k, Len(data_files)) : k \in 1..(Len(data_files) + 1) }

\* The end of process_single_database after a successful import: the cleanup
\* and the result returned, `except Exception` included. Gives the set of
\* [disk, result] outcomes under the fault.
Finish(disk, delete_after_import, fault) ==
    LET failed == [status |-> "failed", error |-> "exception"]
        success == [status |-> "success", error |-> "none"]
    IN  IF ~delete_after_import
        THEN { [disk |-> disk, result |-> success] }
        ELSE IF disk.structure_file /\ fault = "unlink"
        THEN { [disk |-> disk, result |-> failed] }
        ELSE IF disk.data_folder /\ fault = "rmtree"
        THEN { [disk |-> [structure_file |-> FALSE, data_folder |-> TRUE,
                          data_files |-> left],
                result |-> failed] : left \in RmtreeLeftovers(disk.data_files) }
        ELSE { [disk |-> Cleanup(disk, "success", delete_after_import),
                result |-> success] }

\* The report of a pool that has not run.
NoReport == [returned |-> FALSE, todo |-> <<>>, names |-> <<>>, states |-> <<>>,
             ran |-> {}, success_count |-> 0, failed |-> <<>>]

----------------------------------------------------------------------------
(* Each part of the model is run alone; the others stay as they are here *)

FilterIdle ==
    /\ f_file = <<>> /\ f_chunk = READ_SIZE /\ f_pos = 0
    /\ f_buffer = <<>> /\ f_out = <<>> /\ f_pc = "idle"

SplitIdle ==
    /\ sp_src = <<>> /\ sp_max = 0 /\ sp_lines = <<>> /\ sp_st = SplitStart
    /\ sp_commit_frequency = 50
    /\ sp_parts = <<>> /\ sp_ret = -1 /\ sp_pc = "idle"

WorkerIdle ==
    /\ w_threshold = 0 /\ w_fs = NoFiles /\ w_hist = <<>> /\ w_pc = "idle"

NoResult == [status |-> "none", error |-> "none"]

MigrateIdle ==
    /\ m_entry = "none" /\ m_do_export = FALSE /\ m_delete_after_import = FALSE
    /\ m_threads = 1 /\ m_pc = "idle" /\ m_disk = NoDisk
    /\ m_structure_export = "none" /\ m_tables = <<>> /\ m_export_ret = "none"
    /\ m_structure_import = "none" /\ m_restore_ret = "none"
    /\ m_report = [export |-> NoReport, import |-> NoReport]
    /\ m_result = NoResult
    /\ p_mode = "none" /\ p_todo = <<>> /\ p_names = <<>> /\ p_states = <<>>
    /\ p_ran = {} /\ p_cb = <<>> /\ p_local = <<>> /\ p_total = 0

BatchIdle ==
    /\ b_databases = <<>> /\ b_do_export = FALSE /\ b_delete_after_import = FALSE
    /\ b_idx = 1 /\ b_attempts = <<>> /\ b_results = <<>> /\ b_pc = "idle"

\* No tuple returned yet.
NoReturn == [success |-> FALSE, exit_code |-> 0, output |-> <<"none">>]

\* A process that is never spawned.
NoProcess ==
    [spawn |-> FALSE, exit_at |-> 0, exit_code |-> 0, holds_streams |-> FALSE,
     floods_stderr |-> FALSE, stdout |-> <<>>, stderr |-> <<>>, decodable |-> TRUE]

ShellIdle ==
    /\ x_branch = "run" /\ x_timeout = 1 /\ x_proc = NoProcess /\ x_pc = "idle"
    /\ x_alive = "no" /\ x_clock = 0 /\ x_wait_start = 0 /\ x_ret = NoReturn

NamesIdle ==
    /\ n_tables = <<>> /\ n_pc = <<>> /\ n_fs = {} /\ n_touched = <<>>
    /\ n_next_part = <<>> /\ n_parts = <<>>

DiscoverIdle ==
    /\ d_listing = <<>> /\ d_data_files = <<>> /\ d_pc = "idle"

ImportIdle ==
    /\ i_sql_file = 0 /\ i_database = "none" /\ i_env = <<>> /\ i_calls = <<>>
    /\ i_log = <<>> /\ i_pc = "idle" /\ i_ret = FALSE

RunIdle ==
    /\ r_threshold = 0 /\ r_env = <<>> /\ r_fs = NoFiles /\ r_result = <<>>
    /\ r_export_ret = "none" /\ r_data_files = <<>> /\ r_pc = "idle"

StartIdle ==
    /\ c_databases = <<>> /\ c_do_export = FALSE /\ c_delete_after_import = FALSE
    /\ c_exists = FALSE /\ c_folder = {} /\ c_folder0 = {}
    /\ c_idx = 1 /\ c_log = <<>> /\ c_pc = "idle"

MonitorIdle ==
    /\ k_lock = 0 /\ k_thread = 0 /\ k_alive = {} /\ k_body = {}
    /\ k_stop_event = FALSE /\ k_pc = <<>> /\ k_seen = <<>> /\ k_hist = <<>>
    /\ k_made = 0

----------------------------------------------------------------------------
(* The filter as a state machine: one action per f.read *)

\* Bounds of the files the filter is run on.
MaxPieces == 4
MaxChunk == 3

\* 'insert Into', newline, space, 'x', the byte 0xFF (never valid UTF-8),
\* and the two bytes of U+00E9 in UTF-8.
FilterPieces ==
    { INSERT_INTO,
      <<105, 110, 115, 101, 114, 116, 32, 73, 110, 116, 111>>,
      <<10>>, <<32>>, <<120>>, <<255>>, <<195, 169>> }

FilterFiles ==
    { Flatten(ps) : ps \in UNION { [1..n -> FilterPieces] : n \in 0..MaxPieces } }

ChunkSizes == (1..MaxChunk) \cup {READ_SIZE}

InitFilter ==
    /\ f_file \in FilterFiles
    /\ f_chunk \in ChunkSizes
    /\ f_pos = 0
    /\ f_buffer = <<>>
    /\ f_out = <<>>
    /\ f_pc = "reading"
    /\ SplitIdle /\ WorkerIdle /\ MigrateIdle /\ BatchIdle /\ ShellIdle
    /\ MonitorIdle
    /\ StartIdle
    /\ RunIdle
    /\ ImportIdle
    /\ DiscoverIdle
    /\ NamesIdle

\* chunk = f.read(n) returned bytes.
FilterRead ==
    /\ f_pc = "reading"
    /\ ReadAt(f_file, f_pos, f_chunk) /= <<>>
    /\ LET chunk == ReadAt(f_file, f_pos, f_chunk)
           r == ProcessChunk(f_buffer, chunk)
       IN  /\ f_pos' = f_pos + Len(chunk)
           /\ f_buffer' = r.buffer
           /\ f_out' = f_out \o r.out
           /\ f_pc' = IF ChunkRaises(f_buffer, chunk) THEN "raised" ELSE f_pc
    /\ UNCHANGED <<f_file, f_chunk, exceptFilter>>

\* chunk = f.read(n) returned b'': the rest of the buffer, then break.
FilterEOF ==
    /\ f_pc = "reading"
    /\ ReadAt(f_file, f_pos, f_chunk) = <<>>
    /\ f_out' = f_out \o ProcessEOF(f_buffer)
    /\ f_pc' = IF EOFRaises(f_buffer) THEN "raised" ELSE "done"
    /\ UNCHANGED <<f_file, f_chunk, f_pos, f_buffer, exceptFilter>>

NextFilter == FilterRead \/ FilterEOF

SpecFilter == InitFilter /\ [][NextFilter]_vars

----------------------------------------------------------------------------
(* C2 *)

\* The lines of a file as the claim describes them: the newline-delimited
\* lines, decoded, trimmed, kept when they start with INSERT INTO.
RefInsertLines(file) ==
    LET lines == SplitNL(file)
        text == [k \in 1..Len(lines) |-> StripBy(DecodeLine(lines[k]), StrSpace)]
    IN  SelectSeq(text, StartsWithInsert)

\* C2: when the generator is exhausted, whatever the size of its reads, it has
\* yielded exactly the trimmed newline-delimited lines of the file that start
\* case-insensitively with INSERT INTO, in file order.
C2_StreamingCorrect ==
    f_pc = "done" => f_out = RefInsertLines(f_file)

\* A run with one-byte reads over a file whose single INSERT line has no
\* trailing newline and follows another line.
C2_Witness ==
    /\ f_pc = "done"
    /\ f_chunk = 1
    /\ Len(f_out) = 1
    /\ f_file /= <<>> /\ f_file[Len(f_file)] /= 10
    /\ \E i \in 1..Len(f_file) : f_file[i] = 10

\* A line decoded as the claim says: as UTF-8, and as Latin-1 (byte n is code
\* point n) only when it is not valid UTF-8.
ClaimedDecode(b) ==
    IF Utf8Decode(b).ok THEN Utf8Decode(b).chars ELSE b

ClaimedLines(file) ==
    LET lines == SplitNL(file)
        text == [k \in 1..Len(lines) |-> StripBy(ClaimedDecode(lines[k]), StrSpace)]
    IN  SelectSeq(text, StartsWithInsert)

\* C24: whatever the bytes of the file, the generator never ends on a
\* decoding error; it terminates: every step that does not end it moves
\* forward in the file, and the position never passes the end of the file,
\* so that it takes at most Len(f_file) + 1 steps; and the lines it has
\* yielded at its end are the lines decoded as UTF-8 or, when they are not
\* valid UTF-8, as Latin-1.
C24_DecodeProgress ==
    /\ [](f_pc /= "raised")
    /\ [](f_pc = "done" => f_out = ClaimedLines(f_file))
    /\ [](f_pos <= Len(f_file))
    /\ [][f_pc' = "reading" => f_pos' > f_pos]_vars

\* The generator has ended on a file made only of bytes that are no valid
\* UTF-8, read one byte at a time.
C24_Witness ==
    /\ f_pc = "done"
    /\ f_chunk = 1
    /\ Len(f_file) >= 2
    /\ \A i \in DOMAIN f_file : f_file[i] = 255

----------------------------------------------------------------------------
(* The splitter as a state machine: one action per line of the generator *)

\* The longest run of equal INSERT lines a source file starts with.
MaxRun == 51

\* 'INSERT INTO a'
LineA == INSERT_INTO \o <<32, 97>>
\* 'INSERT INTO ' and the byte 0xFF: decoded as Latin-1, written as two bytes
LineB == INSERT_INTO \o <<32, 255>>
\* 'INSERT INTO ' and thirty 'x'
LineC == INSERT_INTO \o <<32>> \o [i \in 1..30 |-> 120]

\* How a source file ends after its run of LineA: nothing more; LineB with no
\* newline after it; a line that is no INSERT, then LineC; an indented LineC
\* with \r\n, an empty line and LineB; a line that is no INSERT.
SplitTails ==
    { <<>>,
      LineB,
      <<120, 10>>,
      <<120, 10>> \o LineC \o <<10>>,
      <<32, 32>> \o LineC \o <<13, 10, 10>> \o LineB \o <<10>> }

SplitSource(n, tail) == Flatten([i \in 1..n |-> LineA \o <<10>>]) \o tail

\* max_size: nothing, less than the envelope, room for two lines, room for
\* exactly fifty lines, room for more than fifty.
SplitSizes == {0, 100, 247, 919, 1000}

\* commit_frequency: the default of process_single_database and the value
\* load_config falls back to.  MyDump has no such parameter and the splitter
\* reads no such value.
CommitFrequencies == {50, 100}

InitSplit ==
    /\ \E n \in 0..MaxRun, tail \in SplitTails : sp_src = SplitSource(n, tail)
    /\ sp_max \in SplitSizes
    /\ sp_commit_frequency \in CommitFrequencies
    /\ sp_lines = IterInsertLines(sp_src)
    /\ sp_st = SplitStart
    /\ sp_parts = <<>>
    /\ sp_ret = -1
    /\ sp_pc = "loop"
    /\ FilterIdle /\ WorkerIdle /\ MigrateIdle /\ BatchIdle /\ ShellIdle
    /\ MonitorIdle
    /\ StartIdle
    /\ RunIdle
    /\ ImportIdle
    /\ DiscoverIdle
    /\ NamesIdle

\* The generator yields its next line.
SplitLine ==
    /\ sp_pc = "loop"
    /\ sp_lines /= <<>>
    /\ LET r == SplitStep(sp_st, Head(sp_lines), sp_max)
       IN  /\ sp_st' = r.st
           /\ sp_parts' = WriteParts(sp_parts, r.written)
    /\ sp_lines' = Tail(sp_lines)
    /\ UNCHANGED <<sp_src, sp_max, sp_ret, sp_pc, sp_commit_frequency, exceptSplit>>

\* The generator is exhausted.
SplitEnd ==
    /\ sp_pc = "loop"
    /\ sp_lines = <<>>
    /\ LET r == SplitFinish(sp_st)
       IN  /\ sp_st' = r.st
           /\ sp_parts' = WriteParts(sp_parts, r.written)
           /\ sp_ret' = r.ret
    /\ sp_pc' = "done"
    /\ UNCHANGED <<sp_src, sp_max, sp_lines, sp_commit_frequency, exceptSplit>>

NextSplit == SplitLine \/ SplitEnd

SpecSplit == InitSplit /\ [][NextSplit]_vars

----------------------------------------------------------------------------
(* C1, C3 *)

\* The INSERT lines of the part files, read in increasing part index.
PartsLines(parts) ==
    LET order == IndicesWhere(IF DOMAIN parts = {} THEN 0 ELSE Max(DOMAIN parts),
                              LAMBDA i : i \in DOMAIN parts)
    IN  Flatten([k \in 1..Len(order) |-> IterInsertLines(parts[order[k]])])

\* C1: when the splitter has returned, the filter run over the part files in
\* increasing part index yields the same lines, in the same order, as the filter
\* run once over the source file.
C1_SplitRoundTrip ==
    sp_pc = "done" => PartsLines(sp_parts) = IterInsertLines(sp_src)

\* A split into several parts of a source with a checkpoint block, a line that
\* is no INSERT and a line whose bytes change when it is re-encoded.
C1_Witness ==
    /\ sp_pc = "done"
    /\ Cardinality(DOMAIN sp_parts) >= 2
    /\ Len(IterInsertLines(sp_src)) > COMMIT_EVERY
    /\ \E i \in 1..Len(sp_src) : sp_src[i] = 255
    /\ \E i \in 1..Len(sp_src) : sp_src[i] = 13

\* Whether a part file holds a single INSERT line, and that line's encoded size.
SingleLine(lines) == Len(lines) = 1
OnlyLineSize(lines) == Len(EncodeLine(lines[1]))

\* C3 as claimed: when the splitter has returned, a part file is at most
\* max_size bytes long unless it holds a single INSERT line that by itself is
\* longer than max_size.
C3_AsClaimed ==
    sp_pc = "done" =>
        \A i \in DOMAIN sp_parts :
            \/ Len(sp_parts[i]) <= sp_max
            \/ LET lines == IterInsertLines(sp_parts[i])
               IN  SingleLine(lines) /\ OnlyLineSize(lines) > sp_max

\* C3 amended: when the splitter has returned, a part file is at most max_size
\* bytes long unless it holds a single INSERT line that with the header and the
\* footer is longer than max_size; that part holds the header, the whole line
\* and the footer, and nothing else.
C3_ThresholdRespected ==
    sp_pc = "done" =>
        \A i \in DOMAIN sp_parts :
            \/ Len(sp_parts[i]) <= sp_max
            \/ LET lines == IterInsertLines(sp_parts[i])
               IN  /\ SingleLine(lines)
                   /\ sp_parts[i] = header_bytes \o EncodeLine(lines[1]) \o footer_bytes
                   /\ header_size + OnlyLineSize(lines) + footer_size > sp_max

\* A split that wrote a part of several lines with a checkpoint block that
\* fills max_size to the byte, and a later part.
C3_Witness ==
    /\ sp_pc = "done"
    /\ sp_max > 0
    /\ \E i, j \in DOMAIN sp_parts :
          /\ i < j
          /\ Len(sp_parts[i]) = sp_max
          /\ Len(IterInsertLines(sp_parts[i])) = COMMIT_EVERY

----------------------------------------------------------------------------
(* The per-table export worker as a state machine: one action per call of
   _export_table_data on the same table *)

\* The number of exports of the table in a row.
MaxRuns == 3

\* split_threshold_mb of the constructor; split_threshold is in bytes.
SplitThresholdsMb == {0, 1}
SplitThreshold(split_threshold_mb) == split_threshold_mb * 1024 * 1024

\* 'SET a;', a statement that is not an INSERT.
LineSet == <<83, 69, 84, 32, 97, 59>>

\* What the dump tool leaves in table_file when it exits with code 0: nothing
\* or a statement that is no INSERT (a table without rows), one INSERT line,
\* two INSERT lines (the second not valid UTF-8).
EmptyDumps == { <<>>, LineSet \o <<10>> }
DataDumps == { LineA \o <<10>>, LineA \o <<10>> \o LineB \o <<10>> }

ToolRun(exit_code, stdout, stderr, created) ==
    [exit_code |-> exit_code, stdout |-> stdout, stderr |-> stderr,
     created |-> created]

\* The tool refused by the server (exit code 2, 'Access denied' on stderr,
\* table_file created by the shell and empty or with a first line in it), and
\* the command that could not be run or timed out (exit code -1).
ToolFails ==
    { ToolRun(2, d, <<"Access denied">>, TRUE) : d \in {<<>>, LineA \o <<10>>} }
    \cup { ToolRun(-1, <<>>, <<"timeout">>, FALSE) }

\* The step of the worker that raises OSError, if any: the opening of the
\* first or second part file, the removal of the temp file, a write of
\* _add_header_footer_to_file, its os.replace.
Faults == {"none", "part_1", "part_2", "remove_tmp", "add_write", "add_replace"}

\* self.get_mysqldump_exe() / self.get_mysql_bin_dir(): BaseShell defines only
\* _get_mysqldump_exe, so the call raises AttributeError unless the object is
\* given the method.
LookupOutcomes == {"ok", "raise"}

WorkerEnv(lookup, tool, fault) == [lookup |-> lookup, tool |-> tool, fault |-> fault]

WorkerEnvs ==
    { WorkerEnv(l, ToolRun(-1, <<>>, <<>>, FALSE), "none") :
        l \in LookupOutcomes \ {"ok"} }
    \cup { WorkerEnv("ok", t, "none") : t \in ToolFails }
    \cup { WorkerEnv("ok", ToolRun(0, d, <<>>, TRUE), "none") : d \in EmptyDumps }
    \cup { WorkerEnv("ok", ToolRun(0, d, <<>>, TRUE), f) :
             d \in DataDumps, f \in Faults }

InitWorker ==
    /\ w_threshold \in { SplitThreshold(mb) : mb \in SplitThresholdsMb }
    /\ w_fs = NoFiles
    /\ w_hist = <<>>
    /\ w_pc = "ready"
    /\ FilterIdle /\ SplitIdle /\ MigrateIdle /\ BatchIdle /\ ShellIdle
    /\ MonitorIdle
    /\ StartIdle
    /\ RunIdle
    /\ ImportIdle
    /\ DiscoverIdle
    /\ NamesIdle

\* One call of _export_table_data(database, table, table_file).
ExportTable ==
    /\ w_pc = "ready"
    /\ Len(w_hist) < MaxRuns
    /\ \E env \in WorkerEnvs :
         \E r \in { ExportTableData(w_fs, w_threshold, env) } :
             /\ w_fs' = r.fs
             /\ w_hist' = Append(w_hist, [env |-> env, before |-> w_fs,
                                          after |-> r.fs, result |-> r.result,
                                          split |-> IF "split" \in DOMAIN r
                                                    THEN r.split ELSE NoSplit,
                                          wrap |-> IF "wrap" \in DOMAIN r
                                                   THEN r.wrap ELSE "none"])
    /\ UNCHANGED <<w_threshold, w_pc, exceptWorker>>

NextWorker == ExportTable

SpecWorker == InitWorker /\ [][NextWorker]_vars

----------------------------------------------------------------------------
(* C8, C9, C10: what the worker leaves and reports *)

\* C8 (as claimed): whenever the worker returns success = false, neither
\* <table>.sql nor <table>.sql.tmp exists afterwards.
C8_AsClaimed ==
    \A i \in DOMAIN w_hist :
        w_hist[i].result.success = FALSE
            => /\ ~Exists(w_hist[i].after, table_file)
               /\ ~Exists(w_hist[i].after, temp_file)

\* The tool ran for this call and exited with a positive code.
ToolExitedNonZero(run) ==
    run.env.lookup = "ok" /\ run.env.tool.exit_code > 0

\* C9 (as claimed): when the dump tool exits with a non-zero code the result
\* has success = false and its error holds every line captured from the tool.
C9_AsClaimed ==
    \A i \in DOMAIN w_hist :
        ToolExitedNonZero(w_hist[i])
            => /\ w_hist[i].result.success = FALSE
               /\ \A line \in { w_hist[i].env.tool.stderr[k] :
                                  k \in DOMAIN w_hist[i].env.tool.stderr } :
                      \E k \in DOMAIN w_hist[i].result.error :
                          w_hist[i].result.error[k] = line

\* The tool produced a dump for this call and the dump has no INSERT line.
ZeroInsertRun(run) ==
    /\ run.env.lookup = "ok"
    /\ run.env.tool.exit_code = 0
    /\ run.env.tool.created
    /\ RefInsertLines(run.env.tool.stdout) = <<>>

\* C10: a dump without INSERT lines leaves no output file (and touches no
\* other file), the result is success with size 0, and a second such export
\* gives the same result and the same files on disk.
C10_EmptyTableIdempotent ==
    /\ \A i \in DOMAIN w_hist :
          ZeroInsertRun(w_hist[i])
              => /\ w_hist[i].result.success = TRUE
                 /\ w_hist[i].result.size_mb = 0
                 /\ ~Exists(w_hist[i].after, table_file)
                 /\ w_hist[i].after =
                        [q \in DOMAIN w_hist[i].before \ {table_file} |->
                            w_hist[i].before[q]]
    /\ \A i \in DOMAIN w_hist :
          i > 1 /\ ZeroInsertRun(w_hist[i - 1]) /\ ZeroInsertRun(w_hist[i])
              => /\ w_hist[i].result = w_hist[i - 1].result
                 /\ w_hist[i].after = w_hist[i - 1].after

\* A split that failed and left files behind, then two exports in a row of
\* the table, now without rows: its dump is a statement that is no INSERT.
C10_Witness ==
    /\ Len(w_hist) = 3
    /\ Exists(w_hist[1].after, temp_file)
    /\ ZeroInsertRun(w_hist[2]) /\ ZeroInsertRun(w_hist[3])
    /\ w_hist[2].env.tool.stdout = LineSet \o <<10>>
    /\ w_hist[3].env.tool.stdout = LineSet \o <<10>>
    /\ w_hist[3].result.success = TRUE
    /\ w_hist[3].result.size_mb = 0
    /\ ~Exists(w_fs, table_file)

\* The names the part files of the table are to have, the first three.
ClaimedPartNames == <<"t.part001.sql", "t.part002.sql", "t.part003.sql">>

\* The worker split the dump of this call and returned success.
SplitRun(run) ==
    /\ run.result.success = TRUE
    /\ run.split /= NoSplit

\* C15: after an export that split the dump and succeeded, the files written
\* are t.part001.sql, t.part002.sql, .. in this order without a gap, the
\* splitter returned their number, every one of them holds at least one
\* INSERT line, no other file of the table was touched, and neither t.sql
\* nor t.sql.tmp exists.
C15_PartFileSet ==
    \A i \in DOMAIN w_hist :
        SplitRun(w_hist[i]) =>
            LET run == w_hist[i]
                n == Len(run.split.names)
            IN  /\ n >= 1
                /\ run.split.ret = n
                /\ run.split.names = SubSeq(ClaimedPartNames, 1, n)
                /\ \A k \in 1..n :
                      /\ Exists(run.after, run.split.names[k])
                      /\ RefInsertLines(run.after[run.split.names[k]]) /= <<>>
                /\ \A q \in DOMAIN run.after :
                      (q \notin DOMAIN run.before \/ run.after[q] /= run.before[q])
                          => \E k \in 1..n : q = run.split.names[k]
                /\ ~Exists(run.after, table_file)
                /\ ~Exists(run.after, temp_file)

\* A dump of two INSERT lines split into two parts, over the temp file that
\* an earlier split had left behind.
C15_Witness ==
    /\ Len(w_hist) >= 2
    /\ Exists(w_hist[1].after, temp_file)
    /\ SplitRun(w_hist[2])
    /\ w_hist[2].split.ret = 2
    /\ Exists(w_hist[2].after, "t.part002.sql")

----------------------------------------------------------------------------
(* One database as a state machine: the main thread goes through the phases,
   the threads of the pool start and finish the tasks *)

Entries == {"main", "export_db", "restore_db"}

\* MyDump(...) with this number of arguments after self: constructed or TypeError.
MyDumpInit(nargs) == nargs <= MyDumpInitParams

\* What the dump folder holds when the database is entered: emptied before an
\* export, whatever an earlier export left before an import alone.
DisksBeforeImport ==
    { [structure_file |-> s, data_folder |-> TRUE, data_files |-> fl] :
        s \in BOOLEAN, fl \in FileLists }
    \cup { [structure_file |-> s, data_folder |-> FALSE, data_files |-> <<>>] :
             s \in BOOLEAN }

InitMigrate ==
    /\ m_entry \in Entries
    /\ m_do_export \in IF m_entry = "main" THEN BOOLEAN ELSE {m_entry = "export_db"}
    /\ m_delete_after_import \in IF m_entry = "main" THEN BOOLEAN ELSE {FALSE}
    /\ m_threads \in 1..MaxThreads
    /\ m_pc = "start"
    /\ m_disk \in IF m_do_export THEN {NoDisk} ELSE DisksBeforeImport
    /\ m_structure_export = "none" /\ m_tables = <<>> /\ m_export_ret = "none"
    /\ m_structure_import = "none" /\ m_restore_ret = "none"
    /\ m_report = [export |-> NoReport, import |-> NoReport]
    /\ m_result = NoResult
    /\ p_mode = "none" /\ p_todo = <<>> /\ p_names = <<>> /\ p_states = <<>>
    /\ p_ran = {} /\ p_cb = <<>> /\ p_local = <<>> /\ p_total = 0
    /\ FilterIdle /\ SplitIdle /\ WorkerIdle /\ BatchIdle /\ ShellIdle
    /\ MonitorIdle
    /\ StartIdle
    /\ RunIdle
    /\ ImportIdle
    /\ DiscoverIdle
    /\ NamesIdle

\* process_single_database up to the export phase: the exporter is constructed
\* with four arguments; export_db or restore_db called directly start here too.
Start ==
    /\ m_pc = "start"
    /\ LET nargs == IF m_entry = "main" THEN MyDumpArgsOfMain ELSE MyDumpInitParams
       IN  IF ~m_do_export
           THEN m_pc' = "restore" /\ UNCHANGED m_result
           ELSE IF MyDumpInit(nargs)
           THEN m_pc' = "export_structure" /\ UNCHANGED m_result
           ELSE /\ m_pc' = "done"
                /\ m_result' = [status |-> "failed", error |-> "TypeError"]
    /\ UNCHANGED <<m_entry, m_do_export, m_delete_after_import, m_threads, m_disk,
                   m_structure_export, m_tables, m_export_ret, m_structure_import,
                   m_restore_ret, m_report, poolVars, exceptMigrate>>

\* export_db: `if not self._export_structure(database, dump_file): return False`
ExportStructure ==
    /\ m_pc = "export_structure"
    /\ \E outcome \in StructureOutcomes :
         LET success == ExportStructureOk(outcome)
         IN  /\ m_structure_export' = IF success THEN "ok" ELSE "failed"
             /\ m_disk' = IF outcome = "lookup_raised" THEN m_disk
                          ELSE [m_disk EXCEPT !.structure_file = TRUE]
             /\ m_pc' = AfterExportStructure(success)
             /\ m_export_ret' = IF AfterExportStructure(success) = "export_returned"
                                THEN "false" ELSE m_export_ret
    /\ UNCHANGED <<m_entry, m_do_export, m_delete_after_import, m_threads,
                   m_tables, m_structure_import, m_restore_ret, m_report,
                   m_result, poolVars, exceptMigrate>>

\* export_db: the table list, `if not tables: return True`; then
\* _export_tables_data up to the pool: the data folder, the table list asked
\* for again, `if not tables: return 0`.
Discover ==
    /\ m_pc = "discover"
    /\ \E tables \in TableLists, tables_again \in TableLists :
         /\ m_tables' = tables
         /\ IF tables = <<>>
            THEN /\ m_export_ret' = "true"
                 /\ m_pc' = "export_returned"
                 /\ UNCHANGED <<m_disk, poolVars>>
            ELSE /\ m_disk' = [m_disk EXCEPT !.data_folder = TRUE]
                 /\ IF tables_again = <<>>
                    THEN /\ m_export_ret' = IF ExportDbResult(0) THEN "true" ELSE "false"
                         /\ m_pc' = "export_returned"
                         /\ UNCHANGED poolVars
                    ELSE /\ p_mode' = "export"
                         /\ p_todo' = tables_again
                         /\ p_names' = <<>> /\ p_states' = <<>> /\ p_ran' = {}
                         /\ p_cb' = <<>> /\ p_local' = <<>> /\ p_total' = 0
                         /\ m_pc' = "submit"
                         /\ UNCHANGED m_export_ret
    /\ UNCHANGED <<m_entry, m_do_export, m_delete_after_import, m_threads,
                   m_structure_export, m_structure_import, m_restore_ret,
                   m_report, m_result, exceptMigrate>>

\* A loop that submits the names from the end of the list.
SubmitFromEnd ==
    /\ m_pc = "submit"
    /\ p_names' = Append(p_names, p_todo[Len(p_todo) - Len(p_names)])
    /\ p_states' = Append(p_states, "pending")
    /\ p_cb' = Append(p_cb, "none")
    /\ p_local' = Append(p_local, 0)
    /\ m_pc' = IF Len(p_names) + 1 = Len(p_todo) THEN "wait" ELSE "submit"
    /\ UNCHANGED <<m_entry, m_do_export, m_delete_after_import, m_threads, m_disk,
                   m_structure_export, m_tables, m_export_ret, m_structure_import,
                   m_restore_ret, m_report, m_result, p_mode, p_todo, p_ran,
                   p_total, exceptMigrate>>

\* pool.submit of the next name, in the order of the list.
Submit ==
    /\ m_pc = "submit"
    /\ p_names' = Append(p_names, p_todo[Len(p_names) + 1])
    /\ p_states' = Append(p_states, "pending")
    /\ p_cb' = Append(p_cb, "none")
    /\ p_local' = Append(p_local, 0)
    /\ m_pc' = IF Len(p_names) + 1 = Len(p_todo) THEN "wait" ELSE "submit"
    /\ UNCHANGED <<m_entry, m_do_export, m_delete_after_import, m_threads, m_disk,
                   m_structure_export, m_tables, m_export_ret, m_structure_import,
                   m_restore_ret, m_report, m_result, p_mode, p_todo, p_ran,
                   p_total, exceptMigrate>>

Pending == { i \in DOMAIN p_states : p_states[i] = "pending" }
Running == { i \in DOMAIN p_states : p_states[i] = "running" }
\* The futures whose outcome is set and whose done callback is not over: the
\* callback is run by the thread of the pool that ran the task.
InCallback == { i \in DOMAIN p_states :
                  p_states[i] \notin {"pending", "running"} /\ p_cb[i] /= "done" }

\* A pool that starts no further work item once a task has failed or raised.
TaskStartUnlessSiblingFailed ==
    /\ p_mode /= "none"
    /\ Pending /= {}
    /\ \A i \in DOMAIN p_states : p_states[i] \in {"pending", "running", "ok"}
    /\ Cardinality(Running \cup InCallback) < m_threads
    /\ p_states' = [p_states EXCEPT ![Min(Pending)] = "running"]
    /\ p_ran' = p_ran \cup {Min(Pending)}
    /\ UNCHANGED <<mainVars, p_mode, p_todo, p_names, p_cb, p_local, p_total,
                   exceptMigrate>>

\* A pool that starts a thread for every work item.
TaskStartUnbounded ==
    /\ p_mode /= "none"
    /\ Pending /= {}
    /\ p_states' = [p_states EXCEPT ![Min(Pending)] = "running"]
    /\ p_ran' = p_ran \cup {Min(Pending)}
    /\ UNCHANGED <<mainVars, p_mode, p_todo, p_names, p_cb, p_local, p_total,
                   exceptMigrate>>

\* A thread of the pool takes the oldest work item; at most max_workers threads.
TaskStart ==
    /\ p_mode /= "none"
    /\ Pending /= {}
    /\ Cardinality(Running \cup InCallback) < m_threads
    /\ p_states' = [p_states EXCEPT ![Min(Pending)] = "running"]
    /\ p_ran' = p_ran \cup {Min(Pending)}
    /\ UNCHANGED <<mainVars, p_mode, p_todo, p_names, p_cb, p_local, p_total,
                   exceptMigrate>>

\* The worker of a task returns or raises; the future holds the outcome.
TaskFinish ==
    /\ p_mode /= "none"
    /\ \E i \in Running :
         \E outcome \in ExportTaskOutcomes, env \in ImportEnvs :
             p_states' = [p_states EXCEPT ![i] =
                             IF p_mode = "export" THEN outcome
                             ELSE ImportSingleTable(env)]
    /\ UNCHANGED <<mainVars, p_mode, p_todo, p_names, p_ran, p_cb, p_local,
                   p_total, exceptMigrate>>

\* update_progress up to the new value of the total. `f.result()` raises when
\* the task raised: the callback ends there, its exception is logged by the
\* future and dropped. The import callback reads the total and adds
\* result['size_mb']; the export callback measures the data folder.
CallbackRead ==
    /\ p_mode /= "none"
    /\ \E i \in InCallback :
         /\ p_cb[i] = "none"
         /\ IF p_states[i] = "raise"
            THEN p_cb' = [p_cb EXCEPT ![i] = "done"] /\ UNCHANGED p_local
            ELSE /\ p_cb' = [p_cb EXCEPT ![i] = "read"]
                 /\ p_local' = [p_local EXCEPT ![i] =
                        IF p_mode = "import"
                        THEN AddSize(p_total, FileSize(i))
                        ELSE ExportedFilesSize(p_states)]
    /\ UNCHANGED <<mainVars, p_mode, p_todo, p_names, p_states, p_ran, p_total,
                   exceptMigrate>>

\* update_progress from the store of the new total to its return.
CallbackWrite ==
    /\ p_mode /= "none"
    /\ \E i \in InCallback :
         /\ p_cb[i] = "read"
         /\ p_total' = p_local[i]
         /\ p_cb' = [p_cb EXCEPT ![i] = "done"]
    /\ UNCHANGED <<mainVars, p_mode, p_todo, p_names, p_states, p_ran, p_local,
                   exceptMigrate>>

\* concurrent.futures.wait(futures) has returned: the results are collected
\* and the pool is left, which joins its threads; export_db or restore_db
\* returns.
Collect ==
    /\ m_pc = "wait"
    /\ Pending = {} /\ Running = {} /\ InCallback = {}
    /\ \E r \in { CollectResults(p_names, p_states) } :
         /\ m_report' = [m_report EXCEPT ![p_mode] =
                [returned |-> TRUE, todo |-> p_todo, names |-> p_names,
                 states |-> p_states, ran |-> p_ran,
                 success_count |-> r.success_count, failed |-> r.failed]]
         /\ IF p_mode = "export"
            THEN /\ m_export_ret' = IF ExportDbResult(r.success_count)
                                    THEN "true" ELSE "false"
                 /\ m_pc' = "export_returned"
                 /\ UNCHANGED m_restore_ret
            ELSE /\ m_restore_ret' = IF RestoreDbResult(r.success_count, p_todo)
                                     THEN "true" ELSE "false"
                 /\ m_pc' = "restore_returned"
                 /\ UNCHANGED m_export_ret
    /\ p_mode' = "none"
    /\ UNCHANGED <<m_entry, m_do_export, m_delete_after_import, m_threads, m_disk,
                   m_structure_export, m_tables, m_structure_import, m_result,
                   p_todo, p_names, p_states, p_ran, p_cb, p_local, p_total,
                   exceptMigrate>>

\* process_single_database after export_db: `if not export_success:` the result
\* is failed, else the import phase.  A direct call of export_db ends here.
AfterExport ==
    /\ m_pc = "export_returned"
    /\ IF m_entry = "export_db"
       THEN m_pc' = "done" /\ UNCHANGED m_result
       ELSE IF m_export_ret = "false"
       THEN /\ m_pc' = "done"
            /\ m_result' = [status |-> "failed", error |-> "export failed"]
       ELSE m_pc' = "restore" /\ UNCHANGED m_result
    /\ UNCHANGED <<m_entry, m_do_export, m_delete_after_import, m_threads, m_disk,
                   m_structure_export, m_tables, m_export_ret, m_structure_import,
                   m_restore_ret, m_report, poolVars, exceptMigrate>>

\* restore_db up to the pool: the structure file must exist and be imported,
\* then the data folder and its files are looked up.
Restore ==
    /\ m_pc = "restore"
    /\ \E env \in ImportEnvs :
         LET exists == m_disk.structure_file
             success == exists /\ ExecuteImport(env)
             next == AfterImportStructure(exists, success)
         IN  /\ m_structure_import' = IF ~exists THEN "missing"
                                      ELSE IF success THEN "ok" ELSE "failed"
             /\ IF next = "restore_returned"
                THEN /\ m_restore_ret' = "false"
                     /\ m_pc' = "restore_returned"
                     /\ UNCHANGED poolVars
                ELSE IF ~m_disk.data_folder \/ m_disk.data_files = <<>>
                THEN /\ m_restore_ret' = "true"
                     /\ m_pc' = "restore_returned"
                     /\ UNCHANGED poolVars
                ELSE /\ p_mode' = "import"
                     /\ p_todo' = m_disk.data_files
                     /\ p_names' = <<>> /\ p_states' = <<>> /\ p_ran' = {}
                     /\ p_cb' = <<>> /\ p_local' = <<>> /\ p_total' = 0
                     /\ m_pc' = "submit"
                     /\ UNCHANGED m_restore_ret
    /\ UNCHANGED <<m_entry, m_do_export, m_delete_after_import, m_threads, m_disk,
                   m_structure_export, m_tables, m_export_ret, m_report,
                   m_result, exceptMigrate>>

\* process_single_database after restore_db: `if not import_success:` the
\* result is failed, else success and the files are removed when
\* delete_after_import is set.  A direct call of restore_db ends here.
AfterRestore ==
    /\ m_pc = "restore_returned"
    /\ m_pc' = "done"
    /\ IF m_entry = "restore_db"
       THEN UNCHANGED <<m_result, m_disk>>
       ELSE IF m_restore_ret = "false"
       THEN /\ m_result' = [status |-> "failed", error |-> "import failed"]
            /\ UNCHANGED m_disk
       ELSE \E fault \in CleanupFaults :
                \E r \in Finish(m_disk, m_delete_after_import, fault) :
                    /\ m_result' = r.result
                    /\ m_disk' = r.disk
    /\ UNCHANGED <<m_entry, m_do_export, m_delete_after_import, m_threads,
                   m_structure_export, m_tables, m_export_ret, m_structure_import,
                   m_restore_ret, m_report, poolVars, exceptMigrate>>

NextMigrate ==
    \/ Start \/ ExportStructure \/ Discover \/ Submit \/ TaskStart
    \/ TaskFinish \/ CallbackRead \/ CallbackWrite \/ Collect
    \/ AfterExport \/ Restore \/ AfterRestore

SpecMigrate == InitMigrate /\ [][NextMigrate]_vars

----------------------------------------------------------------------------
(* C4 to C7: the pools and the order of the phases *)

\* The futures of a report that ended otherwise than with success = true.
FailedTasks(report) == { i \in DOMAIN report.states : report.states[i] /= "ok" }

\* C4: when the pipeline of a phase has returned, every name of its list was
\* submitted once, every task was started and has ended, the failure list
\* holds exactly the names of the K tasks that failed, in the order of the
\* list, and the success count is N - K.
C4_PoolIsolation ==
    \A mode \in {"export", "import"} :
        LET report == m_report[mode]
            N == Len(report.names)
            K == Cardinality(FailedTasks(report))
        IN  report.returned =>
              /\ report.names = report.todo
              /\ report.ran = 1..N
              /\ \A i \in 1..N : report.states[i] \in {"ok", "fail", "raise"}
              /\ Len(report.failed) = K
              /\ report.failed = [j \in 1..K |-> report.names[Sorted(FailedTasks(report))[j]]]
              /\ report.success_count = N - K

\* Three tasks on a pool of two threads, the first failed, the second raised
\* or failed too, the third succeeded, and the pipeline has returned.
C4_Witness ==
    \E mode \in {"export", "import"} :
        /\ m_report[mode].returned
        /\ m_threads = 2
        /\ Len(m_report[mode].names) = 3
        /\ m_report[mode].states[1] = "fail"
        /\ m_report[mode].states[2] /= "ok"
        /\ m_report[mode].states[3] = "ok"
        /\ m_report[mode].success_count = 1

\* C5: a table export is submitted only after the structure export of the
\* database has returned success; after a structure export that failed
\* export_db returns false, no table is looked up or exported and nothing is
\* imported.
C5_StructureExportFirst ==
    /\ (p_mode = "export" \/ m_report.export.returned \/ m_tables /= <<>>)
          => m_structure_export = "ok"
    /\ m_structure_export = "failed"
          => /\ m_export_ret = "false"
             /\ m_tables = <<>>
             /\ p_names = <<>> /\ p_ran = {}
             /\ ~m_report.export.returned /\ ~m_report.import.returned
             /\ m_structure_import = "none"
             /\ m_pc \in {"export_returned", "done"}

\* export_db has returned after a structure export that failed.
C5_Witness ==
    /\ m_structure_export = "failed"
    /\ m_export_ret = "false"
    /\ m_pc = "done"

\* C6: a data file import is submitted only after the structure file has been
\* imported with success; when the structure file is missing or its import
\* fails, restore_db returns false and no data file is imported.
C6_StructureImportFirst ==
    /\ (p_mode = "import" \/ m_report.import.returned)
          => m_structure_import = "ok"
    /\ m_structure_import \in {"missing", "failed"}
          => /\ m_restore_ret = "false"
             /\ p_mode = "none" /\ p_names = <<>> /\ p_ran = {}
             /\ ~m_report.import.returned

\* restore_db has returned false for a folder with data files whose structure
\* file could not be imported.
C6_Witness ==
    /\ m_structure_import = "failed"
    /\ m_disk.data_files /= <<>>
    /\ m_restore_ret = "false"
    /\ m_pc = "done"

\* C7 (as claimed): when the export of at least one table has failed, export_db
\* reports failure, the result of the database is failed when it is run by
\* process_single_database, and every other table export has ended.
C7_AsClaimed ==
    (m_report.export.returned /\ m_report.export.failed /= <<>>)
        => /\ m_export_ret = "false"
           /\ (m_entry = "main" /\ m_pc = "done" => m_result.status = "failed")
           /\ \A i \in DOMAIN m_report.export.states :
                  m_report.export.states[i] \in {"ok", "fail", "raise"}

----------------------------------------------------------------------------
(* C11, C12: process_single_database from the first phase to the result *)

\* No step of the database has failed so far: neither structure step, no
\* table export, no data file import.
NoStepFailed ==
    /\ m_structure_export /= "failed"
    /\ m_structure_import \notin {"missing", "failed"}
    /\ FailedTasks(m_report.export) = {} /\ FailedTasks(m_report.import) = {}
    /\ \A i \in DOMAIN p_states : p_states[i] \notin {"fail", "raise"}

\* C11 (as claimed): with export enabled, when no step fails,
\* process_single_database returns a result with status success, after the
\* export and then the import have returned success.
C11_AsClaimed ==
    (m_entry = "main" /\ m_do_export /\ m_pc = "done" /\ NoStepFailed)
        => /\ m_result.status = "success"
           /\ m_export_ret = "true"
           /\ m_restore_ret = "true"

\* The step removes the structure file or the data folder.
RemovesFiles ==
    \/ m_disk.structure_file /\ ~m_disk'.structure_file
    \/ m_disk.data_folder /\ ~m_disk'.data_folder

\* C12 (as claimed): the structure file and the data folder are removed only
\* by a step that ends the database with status success while
\* delete_after_import is set; a step that ends it with status failed leaves
\* the disk as it is.
C12_AsClaimed ==
    [][ /\ RemovesFiles => m_delete_after_import /\ m_result'.status = "success"
        /\ m_result'.status = "failed" => m_disk' = m_disk ]_vars

\* C14 (as claimed): the callbacks update the aggregate total one at a time,
\* so once every import task has completed and its callback is over, the
\* total is the sum of the sizes reported by the task results.
C14_AsClaimed ==
    (/\ p_mode = "import"
     /\ Len(p_names) = Len(p_todo)
     /\ \A i \in DOMAIN p_cb : p_cb[i] = "done")
        => p_total = SumSizes(DOMAIN p_states)

----------------------------------------------------------------------------
(* The batch loop of main(): one action per database of the configuration *)

MaxDatabases == 2
Databases == {"a", "b"}

\* config['databases']: any list of names, a name listed twice included.
DatabaseLists ==
    UNION { [1..n -> Databases] : n \in 0..MaxDatabases }

\* What one call of process_single_database meets: whether the source and
\* target dictionaries hold their keys (KeyError otherwise), what export_db
\* and restore_db return, what the dump folder holds before the cleanup and
\* the fault of the cleanup.
BatchEnvs ==
    [config_ok : BOOLEAN, export_ret : BOOLEAN, restore_ret : BOOLEAN,
     disk : DisksBeforeImport, fault : CleanupFaults]

\* The body of the try block: [raised, result] outcomes.
TryBody(do_export, delete_after_import, env) ==
    LET raised == [raised |-> TRUE, result |-> NoResult]
        failed(error) == [raised |-> FALSE,
                          result |-> [status |-> "failed", error |-> error]]
    IN  IF ~env.config_ok THEN { raised }
        ELSE IF do_export /\ ~MyDumpInit(MyDumpArgsOfMain) THEN { raised }
        ELSE IF do_export /\ ~env.export_ret THEN { failed("export failed") }
        ELSE IF ~env.restore_ret THEN { failed("import failed") }
        ELSE { [raised |-> r.result.status = "failed", result |-> r.result] :
                 r \in Finish(env.disk, delete_after_import, env.fault) }

\* A try block without its except clause: the exception leaves the function.
TryExceptPropagating(body) ==
    IF body.raised
    THEN [returned |-> FALSE, result |-> NoResult]
    ELSE [returned |-> TRUE, result |-> body.result]

\* `except Exception as e:` status failed, error str(e), return result.
TryExcept(body) ==
    IF body.raised
    THEN [returned |-> TRUE, result |-> [status |-> "failed", error |-> "exception"]]
    ELSE [returned |-> TRUE, result |-> body.result]

\* process_single_database: what the caller gets.
ProcessSingleDatabase(do_export, delete_after_import, env) ==
    { TryExcept(body) : body \in TryBody(do_export, delete_after_import, env) }

InitBatch ==
    /\ b_databases \in DatabaseLists
    /\ b_do_export \in BOOLEAN
    /\ b_delete_after_import \in BOOLEAN
    /\ b_idx = 1 /\ b_attempts = <<>> /\ b_results = <<>>
    /\ b_pc = "loop"
    /\ FilterIdle /\ SplitIdle /\ WorkerIdle /\ MigrateIdle /\ ShellIdle
    /\ MonitorIdle
    /\ StartIdle
    /\ RunIdle
    /\ ImportIdle
    /\ DiscoverIdle
    /\ NamesIdle

\* One iteration of `for idx, db in enumerate(config['databases'], 1)`.
BatchIterate ==
    /\ b_pc = "loop"
    /\ b_idx <= Len(b_databases)
    /\ b_attempts' = Append(b_attempts, b_databases[b_idx])
    /\ \E env \in BatchEnvs :
        \E out \in ProcessSingleDatabase(b_do_export, b_delete_after_import, env) :
            IF out.returned
            THEN /\ b_results' = Append(b_results,
                        [database |-> b_databases[b_idx],
                         status |-> out.result.status,
                         error |-> out.result.error])
                 /\ b_idx' = b_idx + 1
                 /\ b_pc' = "loop"
            ELSE /\ b_pc' = "crashed"
                 /\ UNCHANGED <<b_results, b_idx>>
    /\ UNCHANGED <<b_databases, b_do_export, b_delete_after_import, exceptBatch>>

\* The end of the loop: the summary of the results.
BatchSummary ==
    /\ b_pc = "loop"
    /\ b_idx > Len(b_databases)
    /\ b_pc' = "done"
    /\ UNCHANGED <<b_databases, b_do_export, b_delete_after_import, b_idx,
                   b_attempts, b_results, exceptBatch>>

NextBatch == BatchIterate \/ BatchSummary

SpecBatch == InitBatch /\ [][NextBatch]_vars

----------------------------------------------------------------------------
(* C16 to C20: the part files read statement by statement *)

\* The lines of a file that ends with a newline.
FileLines(bytes) ==
    LET pieces == SplitNL(bytes) IN SubSeq(pieces, 1, Len(pieces) - 1)

\* What a line of a data file is, by the statements of the envelope.
Kind(line) ==
    IF line = <<>> THEN "blank"
    ELSE IF line = header_lines[1] THEN "fk_off"
    ELSE IF line = header_lines[2] THEN "unique_off"
    ELSE IF line = header_lines[3] THEN "autocommit_off"
    ELSE IF line = header_lines[5] THEN "start"
    ELSE IF line = footer_lines[1] THEN "commit"
    ELSE IF line = footer_lines[2] THEN "fk_on"
    ELSE IF line = footer_lines[3] THEN "unique_on"
    ELSE IF StartsWithInsert(line) THEN "insert"
    ELSE "other"

Kinds(bytes) ==
    LET lines == FileLines(bytes) IN [k \in 1..Len(lines) |-> Kind(lines[k])]

\* A run of INSERT statements with checkpoint blocks (commit, START
\* TRANSACTION) among them and nothing else, an INSERT first.
IsInsertRun(kinds) ==
    /\ kinds /= <<>>
    /\ kinds[1] = "insert"
    /\ \A i \in DOMAIN kinds :
          \/ kinds[i] = "insert"
          \/ kinds[i] = "commit" /\ i < Len(kinds) /\ kinds[i + 1] = "start"
          \/ kinds[i] = "start" /\ i > 1 /\ kinds[i - 1] = "commit"

FooterKinds == <<"commit", "fk_on", "unique_on">>

TxStatements(kinds) ==
    IndicesWhere(Len(kinds), LAMBDA k : kinds[k] \in {"start", "commit"})

\* The statement at place k is inside a transaction: a START TRANSACTION came
\* last among the transaction statements before it.
InsideTransaction(kinds, k) ==
    LET tx == TxStatements(kinds)
        before == { j \in DOMAIN tx : tx[j] < k }
    IN  before /= {} /\ kinds[tx[Max(before)]] = "start"

\* C17: in every part, START TRANSACTION and commit alternate, beginning with
\* START TRANSACTION and ending with commit (no transaction is left open),
\* every INSERT is inside a transaction, and the foreign-key and unique
\* checks switched off in the header are switched on again after the last
\* commit.
C17_SelfContained ==
    \A i \in DOMAIN sp_parts :
        LET kinds == Kinds(sp_parts[i])
            n == Len(kinds)
            tx == TxStatements(kinds)
        IN  /\ Len(tx) >= 2 /\ Len(tx) % 2 = 0
            /\ \A j \in DOMAIN tx :
                  kinds[tx[j]] = IF j % 2 = 1 THEN "start" ELSE "commit"
            /\ \A k \in 1..n : kinds[k] = "insert" => InsideTransaction(kinds, k)
            /\ \E k \in 1..n : kinds[k] = "insert"
            /\ \A k \in 1..n :
                  /\ kinds[k] = "fk_off" =>
                        \E k2 \in (tx[Len(tx)] + 1)..n : kinds[k2] = "fk_on"
                  /\ kinds[k] = "unique_off" =>
                        \E k2 \in (tx[Len(tx)] + 1)..n : kinds[k2] = "unique_on"
            /\ \E k \in 1..n : kinds[k] = "fk_off"
            /\ \E k \in 1..n : kinds[k] = "unique_off"

\* A part with two transactions and a part with one.
C17_Witness ==
    /\ sp_pc = "done"
    /\ \E i \in DOMAIN sp_parts : Len(TxStatements(Kinds(sp_parts[i]))) = 4
    /\ \E i \in DOMAIN sp_parts : Len(TxStatements(Kinds(sp_parts[i]))) = 2

\* The number of INSERT statements of a file up to place k.
InsertsUpTo(kinds, k) == Cardinality({ j \in 1..k : kinds[j] = "insert" })

\* The place of the last INSERT statement of a file.
LastInsert(kinds) == Max({ k \in DOMAIN kinds : kinds[k] = "insert" })

\* C18 (as claimed): in every part, counting its INSERT statements from one,
\* a checkpoint block follows an INSERT that is not the last of the part
\* exactly when its number is a multiple of the configured commit_frequency.
C18_AsClaimed ==
    \A i \in DOMAIN sp_parts :
        LET kinds == Kinds(sp_parts[i])
        IN  \A k \in DOMAIN kinds :
                (kinds[k] = "insert" /\ k /= LastInsert(kinds))
                    => (kinds[k + 1] = "commit"
                          <=> InsertsUpTo(kinds, k) % sp_commit_frequency = 0)

\* C19 (as claimed): in every part the last INSERT statement is followed at
\* once by the footer, never by a checkpoint block.
C19_AsClaimed ==
    \A i \in DOMAIN sp_parts :
        LET kinds == Kinds(sp_parts[i])
            last == LastInsert(kinds)
        IN  SubSeq(kinds, last + 1, Len(kinds)) = FooterKinds

\* C20: when the splitter has returned for a source without any INSERT line,
\* it has written no part file and the value returned is 0.
C20_NoDataNoParts ==
    (sp_pc = "done" /\ RefInsertLines(sp_src) = <<>>)
        => DOMAIN sp_parts = {} /\ sp_ret = 0

\* The splitter has returned for a source that holds a line and no INSERT.
C20_Witness ==
    /\ sp_pc = "done"
    /\ sp_src /= <<>>
    /\ RefInsertLines(sp_src) = <<>>
    /\ sp_ret = 0

----------------------------------------------------------------------------
(* C21: the table whose dump is not split *)

\* The tool wrote a dump with an INSERT line in it, not larger than the
\* split threshold.
SmallRun(run) ==
    /\ run.env.lookup = "ok"
    /\ run.env.tool.exit_code = 0
    /\ run.env.tool.created
    /\ RefInsertLines(run.env.tool.stdout) /= <<>>
    /\ Len(run.env.tool.stdout) <= w_threshold

\* No file but table_file is new or changed after the run.
OnlyTableFileWritten(run) ==
    \A q \in DOMAIN run.after :
        (q \notin DOMAIN run.before \/ run.after[q] /= run.before[q])
            => q = table_file

Wrapped(file, dump) ==
    LET lines == FileLines(file)
        kinds == Kinds(file)
        n == Len(kinds)
        body == SelectSeq(SubSeq(kinds, 6, n - 3), LAMBDA k : k /= "blank")
    IN  /\ n >= 9
        /\ SubSeq(lines, 1, 5) = header_lines
        /\ IsInsertRun(body)
        /\ SubSeq(kinds, n - 2, n) = FooterKinds
        /\ RefInsertLines(file) = RefInsertLines(dump)

----------------------------------------------------------------------------
(* BaseShell._exe_command: one call, with the process it runs and the time *)

\* The longest timeout, in ticks of the clock.
MaxTimeout == 2
\* The clock stops two ticks after the longest timeout.
MaxClock == MaxTimeout + 2
\* exit_at of a process that does not exit by itself.
Never == -1

\* `if '|' in command or '>' in command or '<' in command:` subprocess.run,
\* else Popen.
Branches == {"run", "popen"}

\* What the process does: whether it can be spawned at all (Popen raises
\* OSError otherwise), when it exits by itself and with which code, whether
\* it keeps stdout and stderr open until it exits, whether it writes more to
\* stderr than the pipe holds before it closes stdout, the lines it writes,
\* and whether its bytes can be decoded (text=True).
Processes ==
    { NoProcess }
    \cup [spawn : {TRUE}, exit_at : (0..MaxClock) \cup {Never}, exit_code : {0, 2},
          holds_streams : BOOLEAN, floods_stderr : BOOLEAN,
          stdout : {<<"row">>}, stderr : {<<>>, <<"warning">>},
          decodable : BOOLEAN]

\* The tuple (success, exit_code, output) returned.
Return(success, exit_code, output) ==
    [success |-> success, exit_code |-> exit_code, output |-> output]

\* `if exitcode == 0: return True, exitcode, all_output` else False.
ReturnExit(exitcode, all_output) == Return(exitcode = 0, exitcode, all_output)

\* The handlers: except Exception -> [str(e)]; except subprocess.TimeoutExpired
\* -> the synthetic line; except TimeoutExpired of the Popen branch -> the
\* lines read so far.
ReturnException(text) == Return(FALSE, -1, <<text>>)
ReturnRunTimeout == Return(FALSE, -1, <<"timed out">>)
ReturnPopenTimeout(lines) == Return(FALSE, -1, lines)

\* The process is blocked in a write to stderr: the pipe is full and the
\* caller reads stdout first, up to its end.
Blocked ==
    x_branch = "popen" /\ x_proc.floods_stderr /\ x_pc \in {"read_stdout"}

\* readline has come to the end of a stream: the process has closed it, by
\* itself or by exiting.
EndOfStreams ==
    /\ ~Blocked
    /\ x_alive /= "running" \/ (~x_proc.holds_streams /\ ~x_proc.floods_stderr)

InitShell ==
    /\ x_branch \in Branches
    /\ x_timeout \in 1..MaxTimeout
    /\ x_proc \in Processes
    /\ x_pc = "start"
    /\ x_alive = "no" /\ x_clock = 0 /\ x_wait_start = 0 /\ x_ret = NoReturn
    /\ FilterIdle /\ SplitIdle /\ WorkerIdle /\ MigrateIdle /\ BatchIdle
    /\ MonitorIdle
    /\ StartIdle
    /\ RunIdle
    /\ ImportIdle
    /\ DiscoverIdle
    /\ NamesIdle

\* subprocess.run(...) / Popen(...): the shell is started, or OSError.
ShellSpawn ==
    /\ x_pc = "start"
    /\ IF ~x_proc.spawn
       THEN /\ x_ret' = ReturnException("OSError")
            /\ x_pc' = "done"
            /\ UNCHANGED x_alive
       ELSE /\ x_alive' = "running"
            /\ x_pc' = IF x_branch = "run" THEN "communicate" ELSE "read_stdout"
            /\ UNCHANGED x_ret
    /\ UNCHANGED <<x_branch, x_timeout, x_proc, x_clock, x_wait_start, exceptShell>>

\* The process exits by itself.
ProcessExit ==
    /\ x_alive = "running"
    /\ ~Blocked
    /\ x_proc.exit_at /= Never /\ x_clock >= x_proc.exit_at
    /\ x_alive' = "exited"
    /\ UNCHANGED <<x_branch, x_timeout, x_proc, x_pc, x_clock, x_wait_start, x_ret,
                   exceptShell>>

\* A timer of the call is running and has come to its end.
TimerExpired ==
    \/ x_pc = "communicate" /\ x_clock >= x_timeout
    \/ x_pc = "wait" /\ x_clock - x_wait_start >= x_timeout

\* Time passes: not past the exit of a process that is about to exit, not
\* past a timer that has expired.
Tick ==
    /\ x_pc \notin {"start", "done", "idle"}
    /\ x_clock < MaxClock
    /\ ~(x_alive = "running" /\ ~Blocked /\ x_proc.exit_at = x_clock)
    /\ ~(x_alive = "running" /\ TimerExpired)
    /\ x_clock' = x_clock + 1
    /\ UNCHANGED <<x_branch, x_timeout, x_proc, x_pc, x_alive, x_wait_start, x_ret,
                   exceptShell>>

\* subprocess.run: communicate() has both streams to their end and the
\* process has exited; the text is decoded (UnicodeDecodeError -> except
\* Exception), then the return by the exit code.
Communicate ==
    /\ x_pc = "communicate"
    /\ x_alive = "exited"
    /\ x_ret' = IF x_proc.decodable
                THEN ReturnExit(x_proc.exit_code, x_proc.stdout \o x_proc.stderr)
                ELSE ReturnException("UnicodeDecodeError")
    /\ x_pc' = "done"
    /\ UNCHANGED <<x_branch, x_timeout, x_proc, x_alive, x_clock, x_wait_start,
                   exceptShell>>

\* subprocess.run: the timeout elapses, the process is killed and
\* TimeoutExpired is raised; except subprocess.TimeoutExpired.
RunTimeout ==
    /\ x_pc = "communicate"
    /\ x_alive = "running"
    /\ x_clock >= x_timeout
    /\ x_alive' = "killed"
    /\ x_ret' = ReturnRunTimeout
    /\ x_pc' = "done"
    /\ UNCHANGED <<x_branch, x_timeout, x_proc, x_clock, x_wait_start, exceptShell>>

\* Popen: `for line in iter(process.stdout.readline, '')` has come to the end
\* of stdout.
ReadStdout ==
    /\ x_pc = "read_stdout"
    /\ EndOfStreams
    /\ x_pc' = "read_stderr"
    /\ UNCHANGED <<x_branch, x_timeout, x_proc, x_alive, x_clock, x_wait_start,
                   x_ret, exceptShell>>

\* Popen: the same for stderr (UnicodeDecodeError -> except Exception), then
\* process.wait(timeout=timeout) is called.
ReadStderr ==
    /\ x_pc = "read_stderr"
    /\ EndOfStreams
    /\ IF x_proc.decodable
       THEN /\ x_pc' = "wait"
            /\ x_wait_start' = x_clock
            /\ UNCHANGED x_ret
       ELSE /\ x_ret' = ReturnException("UnicodeDecodeError")
            /\ x_pc' = "done"
            /\ UNCHANGED x_wait_start
    /\ UNCHANGED <<x_branch, x_timeout, x_proc, x_alive, x_clock, exceptShell>>

\* Popen: process.wait returns the exit code.
WaitReturns ==
    /\ x_pc = "wait"
    /\ x_alive = "exited"
    /\ x_ret' = ReturnExit(x_proc.exit_code, x_proc.stdout \o x_proc.stderr)
    /\ x_pc' = "done"
    /\ UNCHANGED <<x_branch, x_timeout, x_proc, x_alive, x_clock, x_wait_start,
                   exceptShell>>

\* Popen: process.wait raises TimeoutExpired; process.kill(), process.wait().
WaitTimeout ==
    /\ x_pc = "wait"
    /\ x_alive = "running"
    /\ x_clock - x_wait_start >= x_timeout
    /\ x_alive' = "killed"
    /\ x_ret' = ReturnPopenTimeout(x_proc.stdout \o x_proc.stderr)
    /\ x_pc' = "done"
    /\ UNCHANGED <<x_branch, x_timeout, x_proc, x_clock, x_wait_start, exceptShell>>

NextShell ==
    \/ ShellSpawn \/ ProcessExit \/ Tick \/ Communicate \/ RunTimeout
    \/ ReadStdout \/ ReadStderr \/ WaitReturns \/ WaitTimeout

SpecShell == InitShell /\ [][NextShell]_vars

\* C22 (as claimed): when _exe_command has returned for a process that
\* exited by itself, success is true exactly when the exit code is 0 and the
\* exit code returned is that of the process; when the process could not be
\* spawned, it has returned success false, exit code -1 and the text of the
\* exception as the only line.
C22_AsClaimed ==
    x_pc = "done" =>
        /\ x_alive = "exited" =>
              /\ x_ret.success = (x_proc.exit_code = 0)
              /\ x_ret.exit_code = x_proc.exit_code
        /\ ~x_proc.spawn =>
              /\ x_ret.success = FALSE /\ x_ret.exit_code = -1
              /\ Len(x_ret.output) = 1

\* C23 (as claimed): once the timeout has elapsed since the call, the call
\* has returned, or the process has exited or been killed, or the call is
\* in its timed wait; and a call that killed the process has returned
\* success false with the timed-out line in its output.
C23_AsClaimed ==
    /\ (x_clock > x_timeout /\ x_alive = "running")
          => x_pc \in {"done", "wait"}
    /\ (x_pc = "done" /\ x_alive = "killed")
          => /\ x_ret.success = FALSE
             /\ \E k \in DOMAIN x_ret.output : x_ret.output[k] = "timed out"

----------------------------------------------------------------------------
(* The file names of two workers of one export pool.  A name is a sequence *)
(* of characters; the database folder is the same for both and is left out *)

DotSql == <<".", "s", "q", "l">>
DotTmp == <<".", "t", "m", "p">>
DotPart == <<".", "p", "a", "r", "t">>

DigitChar(d) == <<"0", "1", "2", "3", "4", "5", "6", "7", "8", "9">>[d + 1]

RECURSIVE Decimal(_)
Decimal(n) ==
    IF n < 10 THEN <<DigitChar(n)>>
    ELSE Decimal(n \div 10) \o <<DigitChar(n % 10)>>

\* '{:03d}'.format(n): at least three digits, more when n needs them.
Format03d(n) ==
    LET d == Decimal(n)
    IN  IF Len(d) >= 3 THEN d ELSE [i \in 1..(3 - Len(d)) |-> "0"] \o d

\* os.path.splitext on a base name: the extension starts at the last dot,
\* and there is none when only dots come before it.
SplitExt(p) ==
    LET dots == { i \in DOMAIN p : p[i] = "." }
        d == IF dots = {} THEN 0 ELSE CHOOSE i \in dots : \A j \in dots : j <= i
    IN  IF d = 0 \/ (\A i \in 1..d : p[i] = ".")
        THEN [root |-> p, ext |-> <<>>]
        ELSE [root |-> SubSeq(p, 1, d - 1), ext |-> SubSeq(p, d, Len(p))]

\* table_file = os.path.join(db_folder, f"{table}.sql")
TableFilePath(table) == table \o DotSql

\* temp_file = f"{table_file}.tmp" of the worker, file_path + '.tmp' of
\* _add_header_footer_to_file
TempFilePath(file_path) == file_path \o DotTmp

\* f"{base_name_without_ext}.part{file_counter:03d}{ext}"
PartFilePath(base_filename, file_counter) ==
    SplitExt(base_filename).root \o DotPart \o Format03d(file_counter)
        \o SplitExt(base_filename).ext

\* Table names SHOW TABLES can return.
TableNames ==
    { <<"t">>, <<"u">>,
      <<"t", ".", "s", "q", "l">>,
      <<"t", ".", "p", "a", "r", "t", "0", "0", "1">>,
      <<"t", ".", "p", "a", "r", "t", "0", "0", "2">> }

\* The parts a splitting worker writes at most.
MaxParts == 2

Workers == {1, 2}

InitNames ==
    /\ n_tables \in { p \in TableNames \X TableNames : p[1] /= p[2] }
    /\ n_pc = [w \in Workers |-> "start"]
    /\ n_fs = {}
    /\ n_touched = [w \in Workers |-> {}]
    /\ n_next_part = [w \in Workers |-> 1]
    /\ n_parts = [w \in Workers |-> 0]
    /\ FilterIdle /\ SplitIdle /\ WorkerIdle /\ MigrateIdle /\ BatchIdle
    /\ MonitorIdle
    /\ StartIdle
    /\ RunIdle
    /\ ImportIdle
    /\ DiscoverIdle
    /\ ShellIdle

\* Worker w goes to pc, the folder becomes fs, and w has acted on paths.
NamesStep(w, pc, fs, paths) ==
    /\ n_pc' = [n_pc EXCEPT ![w] = pc]
    /\ n_fs' = fs
    /\ n_touched' = [n_touched EXCEPT ![w] = @ \cup paths]

\* mysqldump ... > table_file: the tool cannot be looked up, or the shell
\* creates table_file and the tool fails or succeeds.
DumpTable(w) ==
    /\ n_pc[w] = "start"
    /\ LET tf == TableFilePath(n_tables[w])
       IN  \E outcome \in {"raise", "failed", "ok"} :
              CASE outcome = "raise" -> NamesStep(w, "except", n_fs, {})
                [] outcome = "failed" ->
                     NamesStep(w, "except", n_fs \cup {tf}, {tf})
                [] outcome = "ok" ->
                     NamesStep(w, "check", n_fs \cup {tf}, {tf})
    /\ UNCHANGED <<n_tables, n_next_part, n_parts, exceptNames>>

\* if os.path.exists(table_file): getsize, _check_has_insert_sql and the
\* choice of the branch.
CheckTable(w) ==
    /\ n_pc[w] = "check"
    /\ IF TableFilePath(n_tables[w]) \in n_fs
       THEN \E branch \in {"empty", "rename", "wrap"} :
               NamesStep(w, branch, n_fs, {})
       ELSE NamesStep(w, "done", n_fs, {})
    /\ UNCHANGED <<n_tables, n_next_part, n_parts, exceptNames>>

\* os.remove(table_file) of a table without INSERT.
RemoveEmpty(w) ==
    /\ n_pc[w] = "empty"
    /\ LET tf == TableFilePath(n_tables[w])
       IN  IF tf \in n_fs
           THEN NamesStep(w, "done", n_fs \ {tf}, {tf})
           ELSE NamesStep(w, "except", n_fs, {})
    /\ UNCHANGED <<n_tables, n_next_part, n_parts, exceptNames>>

\* os.rename(table_file, temp_file), then _split_large_file is entered.
RenameToTemp(w) ==
    /\ n_pc[w] = "rename"
    /\ LET tf == TableFilePath(n_tables[w])
           tmp == TempFilePath(tf)
       IN  IF tf \in n_fs
           THEN /\ NamesStep(w, "split", (n_fs \ {tf}) \cup {tmp}, {tf, tmp})
                /\ \E k \in 1..MaxParts : n_parts' = [n_parts EXCEPT ![w] = k]
           ELSE /\ NamesStep(w, "except", n_fs, {})
                /\ UNCHANGED n_parts
    /\ UNCHANGED <<n_tables, n_next_part, exceptNames>>

\* One part file is opened 'wb' and written, or the splitter raises.
WritePart(w) ==
    /\ n_pc[w] = "split"
    /\ n_next_part[w] <= n_parts[w]
    /\ LET part == PartFilePath(TableFilePath(n_tables[w]), n_next_part[w])
       IN  \/ /\ NamesStep(w, "split", n_fs \cup {part}, {part})
              /\ n_next_part' = [n_next_part EXCEPT ![w] = @ + 1]
           \/ /\ NamesStep(w, "except", n_fs, {})
              /\ UNCHANGED n_next_part
    /\ UNCHANGED <<n_tables, n_parts, exceptNames>>

\* os.remove(temp_file) after the splitter has returned.
RemoveTemp(w) ==
    /\ n_pc[w] = "split"
    /\ n_next_part[w] > n_parts[w]
    /\ LET tmp == TempFilePath(TableFilePath(n_tables[w]))
       IN  IF tmp \in n_fs
           THEN NamesStep(w, "done", n_fs \ {tmp}, {tmp})
           ELSE NamesStep(w, "except", n_fs, {})
    /\ UNCHANGED <<n_tables, n_next_part, n_parts, exceptNames>>

\* _add_header_footer_to_file opens file_path + '.tmp' for writing; when it
\* raises before, its handler finds no temp file of its own to remove.
WrapWrite(w) ==
    /\ n_pc[w] = "wrap"
    /\ LET tmp == TempFilePath(TableFilePath(n_tables[w]))
       IN  \/ NamesStep(w, "replace", n_fs \cup {tmp}, {tmp})
           \/ IF tmp \in n_fs
              THEN NamesStep(w, "done", n_fs \ {tmp}, {tmp})
              ELSE NamesStep(w, "done", n_fs, {})
    /\ UNCHANGED <<n_tables, n_next_part, n_parts, exceptNames>>

\* os.replace(temp_file, file_path); when the temp file is gone the handler
\* of _add_header_footer_to_file has nothing to remove.
WrapReplace(w) ==
    /\ n_pc[w] = "replace"
    /\ LET tf == TableFilePath(n_tables[w])
           tmp == TempFilePath(tf)
       IN  IF tmp \in n_fs
           THEN NamesStep(w, "done", (n_fs \ {tmp}) \cup {tf}, {tmp, tf})
           ELSE NamesStep(w, "done", n_fs, {})
    /\ UNCHANGED <<n_tables, n_next_part, n_parts, exceptNames>>

\* except Exception: if os.path.exists(table_file): os.remove(table_file),
\* then the failure record is returned; os.remove is not guarded, and when
\* it raises OSError the worker ends with that exception.
WorkerExcept(w) ==
    /\ n_pc[w] = "except"
    /\ LET tf == TableFilePath(n_tables[w])
       IN  IF tf \in n_fs
           THEN \/ NamesStep(w, "done", n_fs \ {tf}, {tf})
                \/ NamesStep(w, "raised", n_fs, {})
           ELSE NamesStep(w, "done", n_fs, {})
    /\ UNCHANGED <<n_tables, n_next_part, n_parts, exceptNames>>

NextNames ==
    \/ \E w \in Workers : DumpTable(w)
    \/ \E w \in Workers : CheckTable(w)
    \/ \E w \in Workers : RemoveEmpty(w)
    \/ \E w \in Workers : RenameToTemp(w)
    \/ \E w \in Workers : WritePart(w)
    \/ \E w \in Workers : RemoveTemp(w)
    \/ \E w \in Workers : WrapWrite(w)
    \/ \E w \in Workers : WrapReplace(w)
    \/ \E w \in Workers : WorkerExcept(w)

SpecNames == InitNames /\ [][NextNames]_vars

\* C25: the paths the workers of two distinct tables create, rename,
\* overwrite or delete are disjoint: no path is acted on by both.
C25_AsClaimed ==
    \A w1, w2 \in DOMAIN n_touched :
        w1 /= w2 => n_touched[w1] \cap n_touched[w2] = {}

----------------------------------------------------------------------------
(* _collect_data_files on a directory listing.  Names are compared as      *)
(* Python compares str: character by character, by code point              *)

\* The characters of the names, in the order of their code points.
Alphabet ==
    <<".", "0", "1", "2", "3", "4", "5", "6", "7", "8", "9",
      "a", "l", "m", "p", "q", "r", "s", "t", "u">>

Ord(c) == CHOOSE i \in DOMAIN Alphabet : Alphabet[i] = c

\* a < b for two str.
StrLess(a, b) ==
    \E k \in 1..(Len(b)) :
        /\ \A i \in 1..(k - 1) : i <= Len(a) /\ a[i] = b[i]
        /\ \/ k = Len(a) + 1
           \/ k <= Len(a) /\ Ord(a[k]) < Ord(b[k])

\* sorted(names) for a set of distinct names.
SortedNames(S) ==
    [k \in 1..Cardinality(S) |->
        CHOOSE x \in S : Cardinality({ y \in S : StrLess(y, x) }) = k - 1]

\* file.endswith('.sql')
EndsWithSql(file) ==
    /\ Len(file) >= Len(DotSql)
    /\ SubSeq(file, Len(file) - Len(DotSql) + 1, Len(file)) = DotSql

\* _collect_data_files(db_data_folder), listing being name -> size.
CollectDataFiles(listing) ==
    SortedNames({ file \in DOMAIN listing :
                     EndsWithSql(file) /\ listing[file] > 0 })

\* The greatest index of a part file in the folder, and the indices tried.
MaxPartIndex == 1000
PartIndices == {1, 2, 10, 999, MaxPartIndex}

\* The files a data folder may hold: the parts of table t, the file of
\* table u, and a temp file left behind.
FolderNames ==
    { PartFilePath(TableFilePath(<<"t">>), k) : k \in PartIndices }
        \cup { TableFilePath(<<"u">>), TempFilePath(TableFilePath(<<"u">>)) }

\* Sizes of a file: empty or not.
FileSizes == {0, 1}

Listings == UNION { [D -> FileSizes] : D \in SUBSET FolderNames }

InitDiscover ==
    /\ d_listing \in Listings
    /\ d_data_files = <<>>
    /\ d_pc = "start"
    /\ FilterIdle /\ SplitIdle /\ WorkerIdle /\ MigrateIdle /\ BatchIdle
    /\ MonitorIdle
    /\ StartIdle
    /\ RunIdle
    /\ ImportIdle
    /\ ShellIdle /\ NamesIdle

CollectFiles ==
    /\ d_pc = "start"
    /\ d_data_files' = CollectDataFiles(d_listing)
    /\ d_pc' = "done"
    /\ UNCHANGED <<d_listing, exceptDiscover>>

NextDiscover == CollectFiles

SpecDiscover == InitDiscover /\ [][NextDiscover]_vars

\* The position of a name in the list returned, 0 when it is not there.
PositionOf(file) ==
    IF \E i \in DOMAIN d_data_files : d_data_files[i] = file
    THEN CHOOSE i \in DOMAIN d_data_files : d_data_files[i] = file
    ELSE 0

\* The list returned holds exactly the non-empty files ending in .sql, each
\* once, in increasing lexical order.
ExactlyNonEmptySqlSorted ==
    /\ { d_data_files[i] : i \in DOMAIN d_data_files }
         = { file \in DOMAIN d_listing :
                EndsWithSql(file) /\ d_listing[file] > 0 }
    /\ \A i, j \in DOMAIN d_data_files :
          i < j => StrLess(d_data_files[i], d_data_files[j])

\* The parts of table t that are returned come in increasing part index.
PartsInIndexOrder ==
    \A i, j \in PartIndices :
        LET pi == PositionOf(PartFilePath(TableFilePath(<<"t">>), i))
            pj == PositionOf(PartFilePath(TableFilePath(<<"t">>), j))
        IN  (i < j /\ pi > 0 /\ pj > 0) => pi < pj

\* C26: discovery returns exactly the non-empty .sql files of the listing,
\* sorted lexically by name, and the parts of a table appear in it with
\* strictly increasing part index, whatever the number of parts.
C26_AsClaimed ==
    d_pc = "done" => (ExactlyNonEmptySqlSorted /\ PartsInIndexOrder)

----------------------------------------------------------------------------
(* One call of _execute_import, command by command *)

\* What _exe_command returns for a command: success and the exit code.
CommandResults ==
    { [success |-> TRUE, exit_code |-> 0],
      [success |-> FALSE, exit_code |-> 1],
      [success |-> FALSE, exit_code |-> -1] }

\* get_mysql_exe() and get_mysql_bin_dir() return or raise; then the result
\* of the load command and of the command that follows it.
ExecuteImportEnvs ==
    { [lookup |-> "raise", load |-> r, secondary |-> r] :
        r \in { [success |-> FALSE, exit_code |-> -1] } }
    \cup { [lookup |-> "ok", load |-> l, secondary |-> c] :
             l, c \in CommandResults }

\* mysql ... database < "sql_file"
LoadCommand(sql_file, database) ==
    [stdin |-> sql_file, execute |-> "none", database |-> database]

\* mysql ... --execute="COMMIT; SET foreign_key_checks=1; ..." database
CommitCommand(database) ==
    [stdin |-> 0, execute |-> "COMMIT", database |-> database]

\* mysql ... --execute="ROLLBACK; SET foreign_key_checks=1; ..." database
RollbackCommand(database) ==
    [stdin |-> 0, execute |-> "ROLLBACK", database |-> database]

InitImport ==
    /\ i_sql_file \in 1..MaxFiles
    /\ i_database \in Databases
    /\ i_env \in ExecuteImportEnvs
    /\ i_calls = <<>>
    /\ i_log = <<>>
    /\ i_pc = "lookup"
    /\ i_ret = FALSE
    /\ FilterIdle /\ SplitIdle /\ WorkerIdle /\ MigrateIdle /\ BatchIdle
    /\ MonitorIdle
    /\ StartIdle
    /\ RunIdle
    /\ ShellIdle /\ NamesIdle /\ DiscoverIdle

\* mysql_exe = self.get_mysql_exe(); mysql_bin_dir = self.get_mysql_bin_dir();
\* AttributeError goes to the handler, which logs and returns False.
LookupTools ==
    /\ i_pc = "lookup"
    /\ IF i_env.lookup = "ok"
       THEN /\ i_pc' = "load"
            /\ UNCHANGED <<i_log, i_ret>>
       ELSE /\ i_pc' = "done"
            /\ i_log' = Append(i_log, "exception")
            /\ i_ret' = FALSE
    /\ UNCHANGED <<i_sql_file, i_database, i_env, i_calls, exceptImport>>

\* self._exe_command(import_command, cwd=mysql_bin_dir)
InvokeLoad ==
    /\ i_pc = "load"
    /\ i_calls' = Append(i_calls, LoadCommand(i_sql_file, i_database))
    /\ i_pc' = IF i_env.load.success THEN "commit" ELSE "rollback"
    /\ UNCHANGED <<i_sql_file, i_database, i_env, i_log, i_ret, exceptImport>>

\* An _execute_import that drops what the COMMIT command returned.
InvokeCommitUnchecked ==
    /\ i_pc = "commit"
    /\ i_calls' = Append(i_calls, CommitCommand(i_database))
    /\ i_ret' = TRUE
    /\ i_pc' = "done"
    /\ UNCHANGED <<i_sql_file, i_database, i_env, i_log, exceptImport>>

\* self._exe_command(commit_cmd, ...): True, or the failure is logged and
\* False is returned.
InvokeCommit ==
    /\ i_pc = "commit"
    /\ i_calls' = Append(i_calls, CommitCommand(i_database))
    /\ i_log' = IF i_env.secondary.success THEN i_log
                ELSE Append(i_log, "commit_failed")
    /\ i_ret' = i_env.secondary.success
    /\ i_pc' = "done"
    /\ UNCHANGED <<i_sql_file, i_database, i_env, exceptImport>>

\* self._exe_command(rollback_cmd, ...), its result dropped; the failure of
\* the load is logged and False is returned.
InvokeRollback ==
    /\ i_pc = "rollback"
    /\ i_calls' = Append(i_calls, RollbackCommand(i_database))
    /\ i_log' = Append(i_log, "import_failed")
    /\ i_ret' = FALSE
    /\ i_pc' = "done"
    /\ UNCHANGED <<i_sql_file, i_database, i_env, exceptImport>>

NextImport == LookupTools \/ InvokeLoad \/ InvokeCommit \/ InvokeRollback

SpecImport == InitImport /\ [][NextImport]_vars

\* C27: a call of _execute_import that has returned has invoked the load
\* command once, on its file, and after it one command: COMMIT with the
\* flags restored when the load succeeded, ROLLBACK with the flags restored
\* when it failed; nothing is invoked after that command, whatever it gave.
C27_AsClaimed ==
    i_pc = "done" =>
        \E load \in BOOLEAN :
            i_calls = <<LoadCommand(i_sql_file, i_database),
                        IF load THEN CommitCommand(i_database)
                        ELSE RollbackCommand(i_database)>>

\* The threads of the pool and the main thread keep running, and every tool
\* that is invoked returns: a step that can be taken is taken.
SpecMigrateLive == SpecMigrate /\ WF_vars(NextMigrate)

----------------------------------------------------------------------------
(* C29, C30: the pool and the table discovery of one database *)

\* C29: in every state of an export or import phase the workers that are
\* executing, the done callback included, are at most max_workers.
C29_BoundedPool ==
    /\ Cardinality(Running) <= m_threads
    /\ Cardinality(Running \cup InCallback) <= m_threads

\* The pool is full and a submitted task waits for a thread.
C29_Witness ==
    /\ p_mode \in {"export", "import"}
    /\ Cardinality(Running) = m_threads
    /\ Pending /= {}

\* The export phase is over, its structure step succeeded and its pool has
\* not run: a table list came back empty.
NoTableDiscovered ==
    /\ m_structure_export = "ok"
    /\ m_pc \notin {"start", "export_structure", "discover"}
    /\ ~m_report.export.returned
    /\ p_mode /= "export"

\* C30: the table list is in increasing order; when a discovery gives no
\* table, no task is submitted and export_db returns True.
C30_Discovery ==
    /\ \A i, j \in DOMAIN m_tables : i < j => m_tables[i] < m_tables[j]
    /\ (m_tables = <<>> /\ m_structure_export = "ok" /\ m_pc /= "discover")
          => NoTableDiscovered
    /\ NoTableDiscovered =>
          /\ m_export_ret = "true"
          /\ m_report.export.names = <<>> /\ m_report.export.ran = {}
          /\ (m_do_export /\ m_pc = "export_returned") => p_names = <<>>

\* The first discovery gave tables and the second, in _export_tables_data,
\* gave none: export_db has returned True without a task.
C30_Witness ==
    /\ NoTableDiscovered
    /\ m_pc = "export_returned"
    /\ m_tables /= <<>>
    /\ m_export_ret = "true"

----------------------------------------------------------------------------
(* C28: termination of one database *)

\* A pool that has returned has run every name it was given, each to an
\* outcome, and reports as failed the names whose task failed or raised.
PoolRanAll(report) ==
    report.returned =>
        /\ report.names = report.todo
        /\ report.ran = DOMAIN report.names
        /\ \A i \in DOMAIN report.states :
              report.states[i] \in {"ok", "fail", "raise"}
        /\ report.success_count
              = Cardinality({ i \in DOMAIN report.states : report.states[i] = "ok" })
        /\ { report.failed[k] : k \in DOMAIN report.failed }
              = { report.names[i] : i \in { j \in DOMAIN report.states :
                                               report.states[j] /= "ok" } }

\* C28: when the threads keep running and every tool invoked returns, the
\* call comes to its end; a pool returns only after every task submitted
\* has run to an outcome, a failed sibling or not, and the tasks that failed
\* or raised are those it reports as failed.
C28_Termination ==
    /\ <>(m_pc = "done")
    /\ [](PoolRanAll(m_report.export) /\ PoolRanAll(m_report.import))

\* A pool has returned in which a task failed and a task submitted after it
\* ran and succeeded.
C28_Witness ==
    /\ m_pc = "done"
    /\ \E phase \in {"export", "import"} :
          /\ m_report[phase].returned
          /\ \E i, j \in DOMAIN m_report[phase].states :
                /\ i < j
                /\ m_report[phase].states[i] /= "ok"
                /\ m_report[phase].states[j] = "ok"

----------------------------------------------------------------------------
(* C31: what leaves the export worker *)

\* C31: the export worker never ends with an exception: every error inside
\* it ends in the failure record its handler returns.
C31_AsClaimed == \A w \in DOMAIN n_pc : n_pc[w] /= "raised"

----------------------------------------------------------------------------
(* C32: the order of submission and what the pool reports *)

\* The names whose task did not end with success, in the order of names.
FailedInOrder(names, states) ==
    LET bad == { i \in DOMAIN states : states[i] /= "ok" }
    IN  [k \in 1..Cardinality(bad) |->
            names[CHOOSE i \in bad : Cardinality({ j \in bad : j < i }) = k - 1]]

\* What a pool that has returned reports depends on the outcomes only.
ReportFromOutcomes(report) ==
    report.returned =>
        /\ report.names = report.todo
        /\ report.success_count
              = Cardinality({ i \in DOMAIN report.states : report.states[i] = "ok" })
        /\ report.failed = FailedInOrder(report.names, report.states)

\* C32: the names submitted so far are the first names of the list, in its
\* order and each once; the success count and the failure list a pool
\* reports are those of the outcomes, in the order of the list, whatever
\* the order in which the tasks ended.
C32_SubmissionOrder ==
    /\ Len(p_names) <= Len(p_todo)
    /\ p_names = SubSeq(p_todo, 1, Len(p_names))
    /\ \A i, j \in DOMAIN p_names : i /= j => p_names[i] /= p_names[j]
    /\ ReportFromOutcomes(m_report.export)
    /\ ReportFromOutcomes(m_report.import)

\* A task has failed while a task submitted before it is still running.
C32_Witness ==
    /\ p_mode \in {"export", "import"}
    /\ \E i, j \in DOMAIN p_states :
          /\ i < j
          /\ p_states[i] = "running"
          /\ p_states[j] = "fail"

----------------------------------------------------------------------------
(* C33: what restore_db returns *)

----------------------------------------------------------------------------
(* C34: what _execute_import returns *)

\* C34: _execute_import returns True only when the load command and the
\* COMMIT command after it both succeeded; when the load succeeds and the
\* COMMIT command fails it returns False, the failure is logged, and the
\* import worker reports the file as failed.
C34_BothMustSucceed ==
    i_pc = "done" =>
        /\ i_ret <=> /\ i_env.lookup = "ok"
                     /\ i_env.load.success
                     /\ i_env.secondary.success
        /\ (i_env.lookup = "ok" /\ i_env.load.success /\ ~i_env.secondary.success)
              => /\ i_ret = FALSE
                 /\ i_log = <<"commit_failed">>
                 /\ ImportSingleTable([lookup |-> "ok", load |-> TRUE,
                                       commit |-> FALSE]) = "fail"

\* The load succeeded, the COMMIT command failed, False was returned.
C34_Witness ==
    /\ i_pc = "done"
    /\ i_env.lookup = "ok" /\ i_env.load.success /\ ~i_env.secondary.success
    /\ Len(i_calls) = 2
    /\ i_ret = FALSE

----------------------------------------------------------------------------
(* export_db followed by restore_db on the same dump folder, as             *)
(* process_single_database calls them, for a database with one table       *)

\* The names a worker can leave in the data folder that end in .sql, in the
\* order sorted() gives them; temp_file ends in .tmp.
SqlNames == <<PartName(1), PartName(2), table_file>>

\* _collect_data_files on the data folder: the non-empty .sql files, sorted.
DataFilesOf(fs) ==
    SelectSeq(SqlNames, LAMBDA name : Exists(fs, name) /\ fs[name] /= <<>>)

InitRun ==
    /\ r_threshold \in { SplitThreshold(mb) : mb \in SplitThresholdsMb }
    /\ r_env \in [worker : WorkerEnvs, structure_import : BOOLEAN]
    /\ r_fs = NoFiles
    /\ r_result = <<>>
    /\ r_export_ret = "none"
    /\ r_data_files = <<>>
    /\ r_pc = "export"
    /\ FilterIdle /\ SplitIdle /\ WorkerIdle /\ MigrateIdle /\ BatchIdle
    /\ MonitorIdle
    /\ StartIdle
    /\ ShellIdle /\ NamesIdle /\ DiscoverIdle /\ ImportIdle

\* _export_tables_data: the one task of the pool runs _export_table_data.
RunExportTable ==
    /\ r_pc = "export"
    /\ \E r \in { ExportTableData(r_fs, r_threshold, r_env.worker) } :
          /\ r_fs' = r.fs
          /\ r_result' = r.result
    /\ r_pc' = "export_returns"
    /\ UNCHANGED <<r_threshold, r_env, r_export_ret, r_data_files, exceptRun>>

\* export_db returns success_count >= 0; process_single_database goes on to
\* restore_db unless it is False.
RunExportReturns ==
    /\ r_pc = "export_returns"
    /\ LET success_count == IF r_result.success THEN 1 ELSE 0
       IN  IF ExportDbResult(success_count)
           THEN r_export_ret' = "true" /\ r_pc' = "restore"
           ELSE r_export_ret' = "false" /\ r_pc' = "done"
    /\ UNCHANGED <<r_threshold, r_env, r_fs, r_result, r_data_files, exceptRun>>

\* restore_db: the structure import, then the data files are collected.
RunCollect ==
    /\ r_pc = "restore"
    /\ IF AfterImportStructure(TRUE, r_env.structure_import) = "collect"
       THEN /\ r_data_files' = DataFilesOf(r_fs)
            /\ r_pc' = IF DataFilesOf(r_fs) = <<>> THEN "done" ELSE "import"
       ELSE /\ r_pc' = "done"
            /\ UNCHANGED r_data_files
    /\ UNCHANGED <<r_threshold, r_env, r_fs, r_result, r_export_ret, exceptRun>>

\* _import_tables_data: every data file is handed to _import_single_table.
RunImport ==
    /\ r_pc = "import"
    /\ r_pc' = "done"
    /\ UNCHANGED <<r_threshold, r_env, r_fs, r_result, r_export_ret,
                   r_data_files, exceptRun>>

NextRun == RunExportTable \/ RunExportReturns \/ RunCollect \/ RunImport

SpecRun == InitRun /\ [][NextRun]_vars

\* C35: when the export worker of the table has returned success = false,
\* the import phase of the same run is handed no file of that table.
C35_AsClaimed ==
    (r_pc \in {"export_returns", "restore", "import", "done"}
        /\ r_result.success = FALSE)
        => r_data_files = <<>>

----------------------------------------------------------------------------
(* C36: the tables export_db proceeds on and the tables submitted *)

\* C36: once export_db has returned after finding a non-empty table list,
\* its pool has run and the names submitted are that list.
C36_AsClaimed ==
    (m_export_ret /= "none" /\ m_structure_export = "ok" /\ m_tables /= <<>>)
        => /\ m_report.export.returned
           /\ m_report.export.names = m_tables

----------------------------------------------------------------------------
(* The rewriting of a small file as all or nothing. *)

----------------------------------------------------------------------------
(* main(): the dump folder before the batch and through it *)

\* What Path.is_file() and Path.is_dir() say of an entry of the folder: a
\* regular file, a directory, or neither of them (a dangling symbolic link,
\* a FIFO).
EntryKinds == {"file", "dir", "other"}

\* dump_folder / f"{db}.sql" and dump_folder / db
SqlFileOf(db) == [name |-> <<db, ".sql">>, kind |-> "file"]
DbFolderOf(db) == [name |-> <<db>>, kind |-> "dir"]

\* An entry that is neither a file nor a directory.
StrayEntry == [name |-> <<"latest">>, kind |-> "other"]

FolderEntries ==
    { SqlFileOf(db) : db \in Databases } \cup { DbFolderOf(db) : db \in Databases }
        \cup { StrayEntry }

\* The loop of cleanup_dump_folder when no call raises: files are unlinked,
\* directories removed with their content, any other entry is passed over.
CleanupDumpFolder(folder) == { e \in folder : e.kind \notin {"file", "dir"} }

\* The folders the loop can leave when item.unlink() or shutil.rmtree(item)
\* raises: the entry it raised on is still there.
CleanupDumpFolderRaised(folder) ==
    { f \in SUBSET folder :
        /\ CleanupDumpFolder(folder) \subseteq f
        /\ \E e \in f : e.kind \in {"file", "dir"} }

\* The clean-up stage of process_single_database for database db: the
\* structure file is unlinked, then the folder of the database removed.
DeleteAfterImport(folder, db, fault) ==
    IF fault = "unlink" /\ SqlFileOf(db) \in folder THEN folder
    ELSE IF fault = "rmtree" /\ DbFolderOf(db) \in folder
    THEN folder \ {SqlFileOf(db)}
    ELSE folder \ {SqlFileOf(db), DbFolderOf(db)}

\* The import stage and what follows it: restore_db returns False when the
\* structure file is missing; the files are deleted after a successful
\* import if the configuration says so.
ImportStage(db, before, folder, dump, delete_after_import) ==
    { [event |-> [db |-> db, before |-> before, dump |-> dump,
                  imported |-> TRUE, seen |-> folder],
       folder |-> IF restore_ret /\ delete_after_import
                  THEN DeleteAfterImport(folder, db, fault) ELSE folder] :
        restore_ret \in IF SqlFileOf(db) \in folder THEN BOOLEAN ELSE {FALSE},
        fault \in CleanupFaults }

\* process_single_database as far as the dump folder goes: the event logged
\* for the call and the folder after it.
ProcessFolder(db, folder, do_export, delete_after_import) ==
    LET stop(dump, f) ==
            { [event |-> [db |-> db, before |-> folder, dump |-> dump,
                          imported |-> FALSE, seen |-> {}],
               folder |-> f] }
        written == folder \cup {SqlFileOf(db), DbFolderOf(db)}
    IN  IF ~do_export
        THEN ImportStage(db, folder, folder, "none", delete_after_import)
        ELSE IF ~MyDumpInit(MyDumpArgsOfMain)
        THEN stop("raised", folder)
        ELSE stop("ran", written)
                \cup ImportStage(db, folder, written, "ran", delete_after_import)

\* config['databases'] of load_config: at least one name.
ConfiguredDatabases == { l \in DatabaseLists : l /= <<>> }

InitStart ==
    /\ c_databases \in ConfiguredDatabases
    /\ c_do_export \in BOOLEAN
    /\ c_delete_after_import \in BOOLEAN
    /\ c_exists \in BOOLEAN
    /\ c_folder \in IF c_exists THEN SUBSET FolderEntries ELSE {{}}
    /\ c_folder0 = c_folder
    /\ c_idx = 1 /\ c_log = <<>>
    /\ c_pc = "start"
    /\ FilterIdle /\ SplitIdle /\ WorkerIdle /\ MigrateIdle /\ BatchIdle
    /\ ShellIdle /\ NamesIdle /\ DiscoverIdle /\ ImportIdle /\ RunIdle
    /\ MonitorIdle

\* `if config['do_export']: cleanup_dump_folder(dump_folder);
\* dump_folder.mkdir(exist_ok=True)`; an exception of the clean-up ends main().
PrepareDumpFolder ==
    /\ c_pc = "start"
    /\ IF c_do_export
       THEN \/ /\ c_folder' = CleanupDumpFolder(c_folder)
               /\ c_exists' = TRUE
               /\ c_pc' = "loop"
            \/ /\ c_folder' \in CleanupDumpFolderRaised(c_folder)
               /\ c_pc' = "crashed"
               /\ UNCHANGED c_exists
       ELSE /\ c_pc' = "loop"
            /\ UNCHANGED <<c_folder, c_exists>>
    /\ UNCHANGED <<c_databases, c_do_export, c_delete_after_import, c_folder0,
                   c_idx, c_log, exceptStart>>

\* One iteration of `for idx, db in enumerate(config['databases'], 1)`.
ProcessDatabase ==
    /\ c_pc = "loop"
    /\ c_idx <= Len(c_databases)
    /\ \E r \in ProcessFolder(c_databases[c_idx], c_folder, c_do_export,
                               c_delete_after_import) :
         /\ c_log' = Append(c_log, r.event)
         /\ c_folder' = r.folder
    /\ c_idx' = c_idx + 1
    /\ UNCHANGED <<c_databases, c_do_export, c_delete_after_import, c_exists,
                   c_folder0, c_pc, exceptStart>>

\* The end of the loop: the summary, then the sleep.
FinishBatch ==
    /\ c_pc = "loop"
    /\ c_idx > Len(c_databases)
    /\ c_pc' = "done"
    /\ UNCHANGED <<c_databases, c_do_export, c_delete_after_import, c_exists,
                   c_folder, c_folder0, c_idx, c_log, exceptStart>>

NextStart == PrepareDumpFolder \/ ProcessDatabase \/ FinishBatch

SpecStart == InitStart /\ [][NextStart]_vars

\* The entries of the start that the calls before call k have deleted after
\* a successful import.
DeletedBefore(k) ==
    { e \in c_folder0 :
        \E j \in 1..(k - 1) :
            e \in {SqlFileOf(c_log[j].db), DbFolderOf(c_log[j].db)} }

\* With do_export disabled nothing is cleaned and no dump tool runs: each
\* database of the configuration reaches the import stage, which sees the
\* entries of the start less those deleted after the imports before it.
NoExportLeavesFolder ==
    ~c_do_export =>
        /\ c_pc /= "crashed"
        /\ \A k \in DOMAIN c_log :
              /\ c_log[k].db = c_databases[k]
              /\ c_log[k].dump = "none"
              /\ c_log[k].imported
              /\ c_log[k].seen = c_log[k].before
              /\ c_log[k].before \subseteq c_folder0
              /\ c_folder0 \ c_log[k].before \subseteq DeletedBefore(k)
        /\ c_log /= <<>> => c_log[1].seen = c_folder0

\* With do_export enabled the first database finds the dump folder empty.
ExportStartsEmpty ==
    (c_do_export /\ c_log /= <<>>) => c_log[1].before = {}

\* C38 (as claimed): with do_export disabled the dump folder is not cleaned,
\* no dump tool runs and each database goes to the import stage with the
\* files on disk; with do_export enabled the dump folder is empty before the
\* first database is processed.
C38_AsClaimed == NoExportLeavesFolder /\ ExportStartsEmpty

----------------------------------------------------------------------------
(* FileMonitor.start, stop and is_running under concurrent callers, and the
   thread of _monitor_loop. A thread is named by its rank of creation, 0 is
   None; the lock is held by a caller or by nobody (0). *)

MaxCallers == 2
MaxCalls == 4
Callers == 1..MaxCallers

\* is_running(): `self._thread is not None and self._thread.is_alive()`
IsRunning == k_thread /= 0 /\ k_thread \in k_alive

\* What a call that returned leaves in the history: what is_running() saw
\* under the lock, the value returned, whether a thread was created and
\* whether the monitor runs when the call returns.
Returned(c, op, seen, ret, created, after) ==
    [caller |-> c, op |-> op, seen |-> seen, ret |-> ret,
     created |-> created, after |-> after]

InitMonitor ==
    /\ k_lock = 0 /\ k_thread = 0 /\ k_alive = {} /\ k_body = {}
    /\ k_stop_event = FALSE
    /\ k_pc = [c \in Callers |-> "idle"]
    /\ k_seen = [c \in Callers |-> FALSE]
    /\ k_hist = <<>>
    /\ k_made = 0
    /\ FilterIdle /\ SplitIdle /\ WorkerIdle /\ MigrateIdle /\ BatchIdle
    /\ ShellIdle /\ NamesIdle /\ DiscoverIdle /\ ImportIdle /\ RunIdle
    /\ StartIdle

\* The calls begun, returned or not.
CallsBegun == Len(k_hist) + Cardinality({ c \in Callers : k_pc[c] /= "idle" })

\* A call that enters the body of start() or stop() whoever holds the lock.
EnterNoLock(c, op) ==
    /\ k_pc[c] = "idle"
    /\ CallsBegun < MaxCalls
    /\ k_pc' = [k_pc EXCEPT ![c] = op]
    /\ UNCHANGED <<k_lock, k_thread, k_alive, k_body, k_stop_event, k_seen,
                   k_hist, k_made, exceptMonitor>>

\* `with _global_monitor_lock:` at the head of start() (op "start_check")
\* and of stop() (op "stop_check"): the caller goes on once the lock is free.
Enter(c, op) ==
    /\ k_pc[c] = "idle"
    /\ CallsBegun < MaxCalls
    /\ k_lock = 0
    /\ k_lock' = c
    /\ k_pc' = [k_pc EXCEPT ![c] = op]
    /\ UNCHANGED <<k_thread, k_alive, k_body, k_stop_event, k_seen, k_hist,
                   k_made, exceptMonitor>>

\* The end of the with block.
Release(c) == IF k_lock = c THEN 0 ELSE k_lock

\* start(): `if self.is_running(): return False`
StartCheck(c) ==
    /\ k_pc[c] = "start_check"
    /\ k_seen' = [k_seen EXCEPT ![c] = IsRunning]
    /\ IF IsRunning
       THEN /\ k_hist' = Append(k_hist,
                    Returned(c, "start", TRUE, FALSE, FALSE, IsRunning))
            /\ k_lock' = Release(c)
            /\ k_pc' = [k_pc EXCEPT ![c] = "idle"]
       ELSE /\ k_pc' = [k_pc EXCEPT ![c] = "start_create"]
            /\ UNCHANGED <<k_hist, k_lock>>
    /\ UNCHANGED <<k_thread, k_alive, k_body, k_stop_event, k_made, exceptMonitor>>

\* start(): the event is cleared, the thread created and started, True
\* returned.
StartCreate(c) ==
    /\ k_pc[c] = "start_create"
    /\ k_stop_event' = FALSE
    /\ k_made' = k_made + 1
    /\ k_thread' = k_made'
    /\ k_alive' = k_alive \cup {k_made'}
    /\ k_hist' = Append(k_hist, Returned(c, "start", k_seen[c], TRUE, TRUE, TRUE))
    /\ k_lock' = Release(c)
    /\ k_pc' = [k_pc EXCEPT ![c] = "idle"]
    /\ UNCHANGED <<k_body, k_seen, exceptMonitor>>

\* stop(): `if not self.is_running(): return False`, else the event is set.
StopCheck(c) ==
    /\ k_pc[c] = "stop_check"
    /\ k_seen' = [k_seen EXCEPT ![c] = IsRunning]
    /\ IF ~IsRunning
       THEN /\ k_hist' = Append(k_hist,
                    Returned(c, "stop", FALSE, FALSE, FALSE, IsRunning))
            /\ k_lock' = Release(c)
            /\ k_pc' = [k_pc EXCEPT ![c] = "idle"]
            /\ UNCHANGED k_stop_event
       ELSE /\ k_stop_event' = TRUE
            /\ k_pc' = [k_pc EXCEPT ![c] = "stop_join"]
            /\ UNCHANGED <<k_hist, k_lock>>
    /\ UNCHANGED <<k_thread, k_alive, k_body, k_made, exceptMonitor>>

\* stop(): join(timeout=10) has returned; a thread still alive gives False,
\* otherwise self._thread becomes None and True is returned. (self._thread
\* can be None here only if another caller is in stop() too.)
StopJoin(c) ==
    /\ k_pc[c] = "stop_join"
    /\ IF k_thread = 0
       THEN /\ k_pc' = [k_pc EXCEPT ![c] = "raised"]
            /\ k_lock' = Release(c)
            /\ UNCHANGED <<k_thread, k_hist>>
       ELSE /\ IF k_thread \in k_alive
               THEN /\ k_hist' = Append(k_hist,
                            Returned(c, "stop", k_seen[c], FALSE, FALSE, TRUE))
                    /\ UNCHANGED k_thread
               ELSE /\ k_hist' = Append(k_hist,
                            Returned(c, "stop", k_seen[c], TRUE, FALSE, FALSE))
                    /\ k_thread' = 0
            /\ k_lock' = Release(c)
            /\ k_pc' = [k_pc EXCEPT ![c] = "idle"]
    /\ UNCHANGED <<k_alive, k_body, k_stop_event, k_seen, k_made, exceptMonitor>>

\* _monitor_loop: `while not self._stop_event.is_set()`; the thread ends
\* when it finds the event set.
LoopTest(t) ==
    /\ t \in k_alive \ k_body
    /\ IF k_stop_event
       THEN k_alive' = k_alive \ {t} /\ UNCHANGED k_body
       ELSE k_body' = k_body \cup {t} /\ UNCHANGED k_alive
    /\ UNCHANGED <<k_lock, k_thread, k_stop_event, k_pc, k_seen, k_hist,
                   k_made, exceptMonitor>>

\* _monitor_loop: the body of the loop and time.sleep(self.interval).
LoopBody(t) ==
    /\ t \in k_body
    /\ k_body' = k_body \ {t}
    /\ UNCHANGED <<k_lock, k_thread, k_alive, k_stop_event, k_pc, k_seen,
                   k_hist, k_made, exceptMonitor>>

NextMonitor ==
    \/ \E c \in Callers : \E op \in {"start_check", "stop_check"} : Enter(c, op)
    \/ \E c \in Callers : StartCheck(c)
    \/ \E c \in Callers : StartCreate(c)
    \/ \E c \in Callers : StopCheck(c)
    \/ \E c \in Callers : StopJoin(c)
    \/ \E t \in 1..MaxCalls : LoopTest(t)
    \/ \E t \in 1..MaxCalls : LoopBody(t)

SpecMonitor == InitMonitor /\ [][NextMonitor]_vars

\* C39: at most one thread of the monitor is alive at any time; a start that
\* finds the monitor running returns false and creates no thread, a start
\* that finds it stopped creates one and returns true; a stop that finds it
\* stopped returns false; when a stop returns true the monitor is not
\* running; no call raises.
C39_OneMonitorThread ==
    /\ Cardinality(k_alive) <= 1
    /\ \A c \in Callers : k_pc[c] /= "raised"
    /\ \A i \in DOMAIN k_hist :
          LET call == k_hist[i]
          IN  /\ (call.op = "start" /\ call.seen)
                    => (~call.ret /\ ~call.created)
              /\ (call.op = "start" /\ ~call.seen)
                    => (call.ret /\ call.created)
              /\ (call.op = "stop" /\ ~call.seen) => ~call.ret
              /\ (call.op = "stop" /\ call.ret) => ~call.after

\* A start, a stop that returned true, and a start after it that returned
\* true with a second thread, while another start was refused.
C39_Witness ==
    /\ \E i, j, k \in DOMAIN k_hist :
          /\ i < j /\ j < k
          /\ k_hist[i].op = "start" /\ k_hist[i].ret
          /\ k_hist[j].op = "stop" /\ k_hist[j].ret
          /\ k_hist[k].op = "start" /\ k_hist[k].ret
    /\ \E i \in DOMAIN k_hist :
          k_hist[i].op = "start" /\ ~k_hist[i].ret
    /\ k_made = 2

============================================================================
